---- MODULE Spec2Model ----
(***************************************************************************)
(* A model of gaussian-analytics.js: the Margrabe / Black-Scholes pricing  *)
(* family, the payment schedule irRollFromEnd and the secant solver        *)
(* irInternalRateOfReturn.                                                 *)
(*                                                                         *)
(* A JavaScript value is a pair <<n, d>>:                                  *)
(*   d > 0   the finite number n/d, in lowest terms                        *)
(*   d = 0   <<1,0>> = Infinity, <<-1,0>> = -Infinity, <<0,0>> = NaN       *)
(*   d < 0   a value that is not a number: <<0,-1>> a string,              *)
(*           <<0,-2>> undefined, <<0,-3>> an (empty) object                *)
(* Arithmetic is exact while the denominator of a result stays within      *)
(* Cap; a result that needs more precision is rounded (half to even) to a  *)
(* multiple of 1/Grid, as a double rounds what its mantissa cannot hold.   *)
(* Math.exp, Math.log and Math.sqrt return multiples of 1/Grid unless the  *)
(* result is exact, and so do pdf and cdf.                                 *)
(***************************************************************************)
EXTENDS Integers, Sequences, FiniteSets, TLC

VARIABLES op,    \* the public operation that was called
          args,  \* its arguments
          pc,    \* position inside the running operation
          loc,   \* local variables of the running operation
          out    \* its outcome: nothing yet, a returned value or a thrown message

vars == <<op, args, pc, loc, out>>

----------------------------------------------------------------------------
(* Numbers *)

Grid == 1000
Cap == Grid * Grid

NaN == <<0, 0>>
Infinity == <<1, 0>>
NegInfinity == <<-1, 0>>
StringValue == <<0, -1>>
Undefined == <<0, -2>>
ObjectValue == <<0, -3>>

Abs(i) == IF i < 0 THEN -i ELSE i
Sgn(i) == IF i < 0 THEN -1 ELSE IF i > 0 THEN 1 ELSE 0

RECURSIVE GCD(_, _)
GCD(a, b) == IF b = 0 THEN a ELSE GCD(b, a % b)

\* the number n/d (d > 0) in lowest terms
Q(n, d) == LET g == GCD(Abs(n), d) IN <<n \div g, d \div g>>
Num(i) == <<i, 1>>
Zero == Num(0)
One == Num(1)

IsNumber(x) == x[2] >= 0          \* typeof x === 'number'
\* NaN, or a value arithmetic is never applied to (the argument checks come first)
IsNaN(x) == x[2] <= 0 /\ x[1] = 0
IsFinite(x) == x[2] > 0
IsInf(x) == x[2] = 0 /\ x[1] # 0
SignOf(x) == Sgn(x[1])

\* n/d (d > 0) rounded to the nearest integer, ties to even
RoundDiv(n, d) ==
    LET q == n \div d
        r == n % d
    IN  IF r < d - r THEN q
        ELSE IF r > d - r THEN q + 1
        ELSE IF q % 2 = 0 THEN q ELSE q + 1

\* the largest integer of the arithmetic underneath
MaxInt == 2147483647

\* a finite number in units of 1/Grid, rounded (a denominator too large for the
\* product rem * Grid is cut to units of Grid first)
GridUnits(x) ==
    LET ip == x[1] \div x[2]
        rem == x[1] % x[2]
    IN  IF x[2] <= MaxInt \div Grid
        THEN ip * Grid + RoundDiv(rem * Grid, x[2])
        ELSE ip * Grid + RoundDiv(rem, x[2] \div Grid)
ToGrid(x) == Q(GridUnits(x), Grid)
\* a computed value as it is kept: on the grid when it is finite
OnGrid(x) == IF IsFinite(x) THEN ToGrid(x) ELSE x

\* d1 * d2 <= Cap, decided without forming the product
Fits(d1, d2) == d1 <= Cap \div d2

\* comparison of two finite numbers: -1, 0 or 1 (continued-fraction descent,
\* no products)
RECURSIVE CmpFrac(_, _, _, _)
CmpFrac(n1, d1, n2, d2) ==
    LET q1 == n1 \div d1
        q2 == n2 \div d2
        r1 == n1 % d1
        r2 == n2 % d2
    IN  IF q1 # q2 THEN (IF q1 < q2 THEN -1 ELSE 1)
        ELSE IF r1 = 0 /\ r2 = 0 THEN 0
        ELSE IF r1 = 0 THEN -1
        ELSE IF r2 = 0 THEN 1
        ELSE CmpFrac(d2, r2, d1, r1)

\* JavaScript's <, <=, >, >=, === on numbers: every comparison with NaN is false
Cmp(a, b) ==
    IF a = b THEN 0
    ELSE IF a = NegInfinity \/ b = Infinity THEN -1
    ELSE IF a = Infinity \/ b = NegInfinity THEN 1
    ELSE CmpFrac(a[1], a[2], b[1], b[2])
Comparable(a, b) == ~IsNaN(a) /\ ~IsNaN(b)
Lt(a, b) == Comparable(a, b) /\ Cmp(a, b) < 0
Le(a, b) == Comparable(a, b) /\ Cmp(a, b) <= 0
Gt(a, b) == Lt(b, a)
Ge(a, b) == Le(b, a)
StrictEq(a, b) == a = b /\ a # NaN

Neg(x) == <<-x[1], x[2]>>

\* the magnitude at which a number of the model overflows to an infinity
Huge == Grid * Grid

\* |x * y| <= limit, decided without forming the product
ProductWithin(x, y, limit) == x = 0 \/ y = 0 \/ Abs(x) <= limit \div Abs(y)

Overflowed(x) ==
    IF IsFinite(x) /\ Abs(x[1]) \div x[2] >= Huge THEN <<Sgn(x[1]), 0>> ELSE x

\* base + n/d (n >= 0, d > 0) rounded to the nearest integer, ties to even
RoundFrom(base, n, d) ==
    LET q == base + (n \div d)
        r == n % d
    IN  IF r < d - r THEN q
        ELSE IF r > d - r THEN q + 1
        ELSE IF q % 2 = 0 THEN q ELSE q + 1

\* ua * ub / Grid rounded, for ua, ub >= 0 in units of 1/Grid; -1 on overflow
MulUnits(ua, ub) ==
    LET ah == ua \div Grid
        al == ua % Grid
        bh == ub \div Grid
        bl == ub % Grid
    IN  IF ~ProductWithin(ah, ub, Huge * Grid) THEN -1
        ELSE RoundFrom(ah * ub + al * bh, al * bl, Grid)

\* ua / ub in units of 1/Grid, rounded, for ua >= 0 and ub > 0; -1 on overflow
DivUnits(ua, ub) ==
    LET q == ua \div ub
        r == ua % ub
    IN  IF q >= Huge THEN -1
        ELSE IF ub <= MaxInt \div Grid THEN q * Grid + RoundDiv(r * Grid, ub)
        ELSE q * Grid + RoundDiv((r \div Grid) * Grid, ub \div Grid)

Add(a, b) ==
    IF IsNaN(a) \/ IsNaN(b) THEN NaN
    ELSE IF IsInf(a) /\ IsInf(b) THEN (IF a = b THEN a ELSE NaN)
    ELSE IF IsInf(a) THEN a
    ELSE IF IsInf(b) THEN b
    ELSE LET g == GCD(a[2], b[2])
             m1 == b[2] \div g
             m2 == a[2] \div g
         IN  IF /\ Fits(a[2], m1)
                /\ ProductWithin(a[1], m1, MaxInt \div 2)
                /\ ProductWithin(b[1], m2, MaxInt \div 2)
             THEN Overflowed(Q(a[1] * m1 + b[1] * m2, a[2] * m1))
             ELSE Overflowed(Q(GridUnits(a) + GridUnits(b), Grid))
Sub(a, b) == Add(a, Neg(b))

Mul(a, b) ==
    IF IsNaN(a) \/ IsNaN(b) THEN NaN
    ELSE IF IsInf(a) \/ IsInf(b)
         THEN (IF SignOf(a) * SignOf(b) = 0 THEN NaN
               ELSE <<SignOf(a) * SignOf(b), 0>>)
    ELSE LET s == SignOf(a) * SignOf(b)
             g1 == GCD(Abs(a[1]), b[2])
             g2 == GCD(Abs(b[1]), a[2])
             d1 == a[2] \div g2
             d2 == b[2] \div g1
             u == MulUnits(Abs(GridUnits(a)), Abs(GridUnits(b)))
         IN  IF Fits(d1, d2) /\ ProductWithin(a[1] \div g1, b[1] \div g2, MaxInt)
             THEN Overflowed(Q((a[1] \div g1) * (b[1] \div g2), d1 * d2))
             ELSE IF u < 0 THEN <<s, 0>>
             ELSE Overflowed(Q(s * u, Grid))

\* a / b; the only zero is +0
Div(a, b) ==
    IF IsNaN(a) \/ IsNaN(b) THEN NaN
    ELSE IF IsInf(a) /\ IsInf(b) THEN NaN
    ELSE IF IsInf(b) THEN Zero
    ELSE IF IsInf(a) THEN (IF SignOf(b) < 0 THEN Neg(a) ELSE a)
    ELSE IF b[1] = 0 THEN (IF a[1] = 0 THEN NaN ELSE <<SignOf(a), 0>>)
    ELSE LET s == SignOf(a) * SignOf(b)
             g1 == GCD(Abs(a[1]), Abs(b[1]))
             g2 == GCD(a[2], b[2])
             d1 == a[2] \div g2
             d2 == Abs(b[1]) \div g1
             u == DivUnits(Abs(GridUnits(a)), Abs(GridUnits(b)))
         IN  IF Fits(d1, d2) /\ ProductWithin(a[1] \div g1, b[2] \div g2, MaxInt)
             THEN Overflowed(Q(s * (Abs(a[1]) \div g1) * (b[2] \div g2), d1 * d2))
             ELSE IF GridUnits(b) = 0 \/ u < 0 THEN <<s, 0>>
             ELSE Overflowed(Q(s * u, Grid))

AbsNum(x) == IF IsNumber(x) /\ x[1] < 0 THEN Neg(x) ELSE x

\* Math.ceil, as an integer-valued number
Ceil(x) == IF IsFinite(x) THEN Num(-((-x[1]) \div x[2])) ELSE x

\* e^(-k), e^(-k/10), e^(-k/100) and e^(-k/1000) for k = 0..9, in units of 1/10000
ExpDigits ==
    <<<<10000, 3679, 1353, 498, 183, 67, 25, 9, 3, 1>>,
      <<10000, 9048, 8187, 7408, 6703, 6065, 5488, 4966, 4493, 4066>>,
      <<10000, 9900, 9802, 9704, 9608, 9512, 9418, 9324, 9231, 9139>>,
      <<10000, 9990, 9980, 9970, 9960, 9950, 9940, 9930, 9920, 9910>>>>

\* e^(-m/1000) for an integer m >= 0, in units of 1/1000; it underflows to 0
ExpNegMilli(m) ==
    IF m >= 10000 THEN 0
    ELSE LET x1 == RoundDiv(ExpDigits[1][(m \div 1000) + 1]
                              * ExpDigits[2][((m \div 100) % 10) + 1], 10000)
             x2 == RoundDiv(x1 * ExpDigits[3][((m \div 10) % 10) + 1], 10000)
             x3 == RoundDiv(x2 * ExpDigits[4][(m % 10) + 1], 10000)
         IN  RoundDiv(x3, 10)

\* Math.exp
Exp(x) ==
    IF IsNaN(x) THEN NaN
    ELSE IF x = Infinity THEN Infinity
    ELSE IF x = NegInfinity THEN Zero
    ELSE LET m == IF Lt(x, Num(-10)) THEN -10000
                  ELSE IF Gt(x, Num(10)) THEN 10000
                  ELSE GridUnits(x)
         IN  IF m <= 0 THEN Q(ExpNegMilli(-m), 1000)
             ELSE IF ExpNegMilli(m) = 0 THEN Infinity
             ELSE Q(RoundDiv(1000000, ExpNegMilli(m)), 1000)

RECURSIVE ISqrtBetween(_, _, _)
\* the largest integer in lo..hi whose square is at most n
ISqrtBetween(n, lo, hi) ==
    IF lo = hi THEN lo
    ELSE LET mid == (lo + hi + 1) \div 2
         IN  IF mid * mid <= n THEN ISqrtBetween(n, mid, hi)
             ELSE ISqrtBetween(n, lo, mid - 1)
ISqrt(n) == ISqrtBetween(n, 0, 46340)

\* Math.sqrt: exact on a ratio of squares
Sqrt(x) ==
    IF IsNaN(x) \/ SignOf(x) < 0 THEN NaN
    ELSE IF x = Infinity THEN Infinity
    ELSE LET rn == ISqrt(x[1])
             rd == ISqrt(x[2])
         IN  IF rn * rn = x[1] /\ rd * rd = x[2] THEN Q(rn, rd)
             ELSE IF GridUnits(x) > MaxInt \div 1000 THEN Num(ISqrt(x[1] \div x[2]))
             ELSE Q(ISqrt(GridUnits(x) * 1000), 1000)

RECURSIVE LnBetween(_, _, _)
\* the least m in lo..hi with e^(-m/1000) <= 1/x, for a finite x > 1
LnBetween(x, lo, hi) ==
    IF lo = hi THEN lo
    ELSE LET mid == (lo + hi) \div 2
         IN  IF CmpFrac(ExpNegMilli(mid), 1000, x[2], x[1]) <= 0
             THEN LnBetween(x, lo, mid)
             ELSE LnBetween(x, mid + 1, hi)

\* Math.log; log(1/x) = -log(x)
Ln(x) ==
    IF IsNaN(x) \/ SignOf(x) < 0 THEN NaN
    ELSE IF x = Infinity THEN Infinity
    ELSE IF x = Zero THEN NegInfinity
    ELSE IF x = One THEN Zero
    ELSE IF x[1] > x[2] THEN Q(LnBetween(x, 0, 10000), 1000)
    ELSE Q(-LnBetween(<<x[2], x[1]>>, 0, 10000), 1000)

----------------------------------------------------------------------------
(* Outcomes and argument checks *)

None == [kind |-> "none", value |-> NaN, name |-> "", text |-> ""]
Return(v) == [kind |-> "return", value |-> v, name |-> "", text |-> ""]
Throw(n, t) == [kind |-> "throw", value |-> NaN, name |-> n, text |-> t]
Throws(o) == o.kind = "throw"

\* statement sequencing: the second check runs only if the first did not throw
Then(first, second) == IF Throws(first) THEN first ELSE second

assertNumber(value, name) ==
    IF ~IsNumber(value) THEN Throw(name, "must be a number") ELSE None

\* assertPositive with the test of assertStrictlyPositive
assertPositiveAboveZero(value, name) ==
    Then(assertNumber(value, name),
         IF Le(value, Zero) THEN Throw(name, "must be greater or equal to 0") ELSE None)

assertPositive(value, name) ==
    Then(assertNumber(value, name),
         IF Lt(value, Zero) THEN Throw(name, "must be greater or equal to 0") ELSE None)

assertStrictlyPositive(value, name) ==
    Then(assertNumber(value, name),
         IF Le(value, Zero) THEN Throw(name, "must be greater than 0") ELSE None)

\* assertCorrelation without the test of the interval
assertCorrelationUnbounded(value, name) == assertNumber(value, name)

assertCorrelation(value, name) ==
    Then(assertNumber(value, name),
         IF Lt(value, Num(-1)) \/ Gt(value, One)
         THEN Throw(name, "must be in interval [-1, 1]") ELSE None)

irMinimumPeriod == Div(One, Num(1000))

assertFrequency(value, name) ==
    Then(assertStrictlyPositive(value, name),
         IF Gt(value, Div(One, irMinimumPeriod))
         THEN Throw(name, "must be less than maxFreq") ELSE None)

----------------------------------------------------------------------------
(* irRollFromEnd(start, end, frequency) *)

irFrequency == {Num(1), Num(2), Num(3), Num(4), Num(6), Num(12), Num(52), Num(250), Num(365)}

RollStarts == {Zero, Q(1, 10), Num(5)}
RollLengths == {One, Q(2001, 2000), Q(1001, 1000), Num(6), Q(5, 2),
                Q(1, 2000), Q(1, 1000), Q(1, 500), Zero, Num(-1)}
RollFrequencies == irFrequency \cup {Q(1, 2), Q(1, 3), Num(1000), Zero, Num(-1), Num(2000)}

RollArgs ==
    {[start |-> s, end |-> Add(s, l), frequency |-> f] :
        s \in RollStarts, l \in RollLengths, f \in RollFrequencies}
    \cup {[start |-> s, end |-> e, frequency |-> f] :
        s \in {StringValue, Zero, NaN}, e \in {StringValue, One},
        f \in {StringValue, One, NaN}}

RollLocals == [schedule |-> <<>>, yearfraction |-> NaN, nPayments |-> NaN, t |-> NaN, i |-> 0]

InitRoll ==
    /\ op = "irRollFromEnd"
    /\ args \in RollArgs
    /\ pc = "call"
    /\ loc = RollLocals
    /\ out = None

\* line 462
NPaymentsNoFrequency(start, end, frequency) == Ceil(Sub(end, start))
NPayments(start, end, frequency) == Ceil(Mul(frequency, Sub(end, start)))

\* line 465, the test that ends the loop
TooCloseAtOrBelow(t, start) == Le(Sub(t, start), irMinimumPeriod)
TooCloseNegative(t, start) == Lt(Sub(t, start), Zero)
TooClose(t, start) == Lt(Sub(t, start), irMinimumPeriod)

\* line 468, schedule.unshift(t)
Push(schedule, t) == schedule \o <<t>>
Unshift(schedule, t) == <<t>> \o schedule

RollChecks(a) ==
    Then(assertNumber(a.start, "start"),
    Then(assertNumber(a.end, "end"),
    Then(IF Ge(Add(a.start, irMinimumPeriod), a.end)
         THEN Throw("start", "needs to be at least irMinimumPeriod before end")
         ELSE None,
         assertFrequency(a.frequency, "frequency"))))

\* lines 454-463: the checks, then the locals of the loop
RollEnter ==
    /\ op = "irRollFromEnd" /\ pc = "call"
    /\ IF Throws(RollChecks(args))
       THEN /\ out' = RollChecks(args)
            /\ pc' = "done"
            /\ loc' = loc
       ELSE /\ loc' = [schedule |-> <<>>,
                       yearfraction |-> Div(One, args.frequency),
                       nPayments |-> NPayments(args.start, args.end, args.frequency),
                       t |-> args.end,
                       i |-> 0]
            /\ pc' = "loop"
            /\ out' = out
    /\ UNCHANGED <<op, args>>

\* lines 464-470, one iteration that adds a date
RollPush ==
    /\ op = "irRollFromEnd" /\ pc = "loop"
    /\ Lt(Num(loc.i), loc.nPayments)
    /\ ~TooClose(loc.t, args.start)
    /\ loc' = [loc EXCEPT !.schedule = Unshift(loc.schedule, loc.t),
                          !.t = Sub(loc.t, loc.yearfraction),
                          !.i = loc.i + 1]
    /\ UNCHANGED <<op, args, pc, out>>

\* lines 465-467: the break
RollBreak ==
    /\ op = "irRollFromEnd" /\ pc = "loop"
    /\ Lt(Num(loc.i), loc.nPayments)
    /\ TooClose(loc.t, args.start)
    /\ out' = Return(loc.schedule)
    /\ pc' = "done"
    /\ UNCHANGED <<op, args, loc>>

\* the loop condition i < nPayments fails
RollExit ==
    /\ op = "irRollFromEnd" /\ pc = "loop"
    /\ ~Lt(Num(loc.i), loc.nPayments)
    /\ out' = Return(loc.schedule)
    /\ pc' = "done"
    /\ UNCHANGED <<op, args, loc>>

NextRoll == RollEnter \/ RollPush \/ RollBreak \/ RollExit

SpecRoll == InitRoll /\ [][NextRoll]_vars

RollReturned == op = "irRollFromEnd" /\ pc = "done" /\ out.kind = "return"

C8_MinimumPeriod ==
    RollReturned =>
        LET s == out.value IN
        /\ \A k \in 1..Len(s) : Ge(Sub(s[k], args.start), irMinimumPeriod)
        /\ \A k \in 1..(Len(s) - 1) : Ge(Sub(s[k+1], s[k]), irMinimumPeriod)

\* a stub of positive length below irMinimumPeriod was discarded, at the
\* highest frequency the checks accept
C8_Witness ==
    /\ RollReturned
    /\ Gt(loc.t, args.start)
    /\ TooClose(loc.t, args.start)
    /\ Len(out.value) >= 2

\* C9 as claimed: the first period (first date minus start) is at most 1/frequency.
C9_FirstPeriodAtMostPeriod ==
    (RollReturned /\ Len(out.value) >= 1) =>
        Le(Sub(out.value[1], args.start), Div(One, args.frequency))

\* C9 amended: the first period is shorter than 1/frequency + irMinimumPeriod;
\* it exceeds 1/frequency when a stub shorter than irMinimumPeriod was discarded.
C9_FirstPeriodBound ==
    (RollReturned /\ Len(out.value) >= 1) =>
        Lt(Sub(out.value[1], args.start),
           Add(Div(One, args.frequency), irMinimumPeriod))

\* a schedule whose first period is longer than 1/frequency
C9_Witness ==
    /\ RollReturned
    /\ Len(out.value) >= 1
    /\ Gt(Sub(out.value[1], args.start), Div(One, args.frequency))

\* C10: with end = start + 1 and a named frequency f the schedule has exactly
\* f dates, and the date the loop stopped at does not satisfy the minimum-gap rule.
C10_NamedFrequencyCount ==
    (/\ op = "irRollFromEnd" /\ pc = "done"
     /\ IsNumber(args.start)
     /\ args.end = Add(args.start, One)
     /\ args.frequency \in irFrequency)
    => /\ out.kind = "return"
       /\ Len(out.value) = args.frequency[1]
       /\ TooClose(loc.t, args.start)

\* 365 daily dates over one year starting at 1/10
C10_Witness ==
    /\ RollReturned
    /\ args = [start |-> Q(1, 10), end |-> Q(11, 10), frequency |-> Num(365)]
    /\ Len(out.value) = 365

\* C11: irRollFromEnd throws, with no date in its schedule, exactly when start or
\* end is not a number, start + irMinimumPeriod >= end, or frequency is not a
\* number in (0, 1/irMinimumPeriod]; on every other input it returns.
C11_ThrowsExactlyOnBadArguments ==
    (op = "irRollFromEnd" /\ pc = "done") =>
        LET inInterval == /\ IsNumber(args.frequency)
                          /\ Gt(args.frequency, Zero)
                          /\ Le(args.frequency, Div(One, irMinimumPeriod))
            bad == \/ ~IsNumber(args.start)
                   \/ ~IsNumber(args.end)
                   \/ Ge(Add(args.start, irMinimumPeriod), args.end)
                   \/ ~inInterval
        IN  /\ Throws(out) <=> bad
            /\ Throws(out) => loc.schedule = <<>>

----------------------------------------------------------------------------
(* pdf, cdf and the Margrabe / Black-Scholes family *)

PI == Q(3141593, 1000000)
stdnormalNormalizingConstant == Div(One, Sqrt(Mul(Num(2), PI)))

\* pdf(x) once assertNumber(x) has passed
pdf(x) == OnGrid(Mul(stdnormalNormalizingConstant, Exp(Mul(Q(-1, 2), Mul(x, x)))))

\* the coefficients of Zelen and Severo, to six decimals
p == Q(231642, 1000000)
b1 == Q(319382, 1000000)
b2 == Q(-356564, 1000000)
b3 == Q(1781478, 1000000)
b4 == Q(-1821256, 1000000)
b5 == Q(1330274, 1000000)

RECURSIVE Pow(_, _)
Pow(x, n) == IF n = 1 THEN x ELSE Mul(Pow(x, n - 1), x)

\* the reflection of a non-positive argument
CdfNoReflection(x) == FALSE
CdfReflects(x) == Le(x, Zero)

\* line 47, with x, intercept and slope as lines 39-45 leave them and t of line 46
CdfSeries(ax, intercept, slope, t) ==
    OnGrid(Add(intercept,
               Mul(Mul(slope, pdf(ax)),
                   Add(Add(Add(Add(Mul(b1, t), Mul(b2, Pow(t, 2))), Mul(b3, Pow(t, 3))),
                           Mul(b4, Pow(t, 4))), Mul(b5, Pow(t, 5))))))
CdfFolded(ax, intercept, slope) ==
    CdfSeries(ax, intercept, slope, Div(One, Add(One, Mul(p, ax))))

\* cdf(x) once assertNumber(x) has passed
cdf(x) ==
    IF StrictEq(x, Zero) THEN Q(1, 2)
    ELSE IF CdfReflects(x) THEN CdfFolded(Neg(x), Zero, One)
    ELSE CdfFolded(x, One, Num(-1))

discountFactor(r, t) == Exp(Mul(Neg(r), t))

\* scale = 1.0 when it is not given
DefaultScale(scale) == IF scale = Undefined THEN One ELSE scale

MargrabesChecks(a) ==
    Then(assertPositive(a.S1, "S1"),
    Then(assertPositive(a.S2, "S2"),
    Then(assertPositive(a.T, "T"),
    Then(assertPositive(a.sigma, "sigma"),
    Then(assertNumber(a.q1, "q1"),
    Then(assertNumber(a.q2, "q2"),
         assertNumber(DefaultScale(a.scale), "undefined")))))))

\* the put leg with the asset-or-nothing terms in the order of the call leg
PutPriceAsCall(scale, asset1OrNothingPut, asset2OrNothingPut) ==
    Mul(scale, Sub(asset1OrNothingPut, asset2OrNothingPut))
PutPrice(scale, asset1OrNothingPut, asset2OrNothingPut) ==
    Mul(scale, Sub(asset2OrNothingPut, asset1OrNothingPut))

\* lines 226-248: the result, given the consts of lines 217-225
MargrabesResult(S1, S2, sigma, scale, d1, d2, N_d1, N_d2, df1, df2, gamma) ==
    [call |-> [price |-> Mul(scale, Sub(Mul(Mul(df1, S1), N_d1), Mul(Mul(df2, S2), N_d2))),
               delta |-> Mul(Mul(scale, df1), N_d1),
               gamma |-> gamma],
     put |-> [price |-> PutPrice(scale, Mul(Mul(df1, S1), Sub(One, N_d1)),
                                 Mul(Mul(df2, S2), Sub(One, N_d2))),
              delta |-> Mul(Mul(scale, df1), Sub(N_d1, One)),
              gamma |-> gamma],
     N_d1 |-> N_d1, N_d2 |-> N_d2, d1 |-> d1, d2 |-> d2, sigma |-> sigma]

\* lines 221-225 and gamma of line 233, given sigmaSqrtT, d1 and df1
MargrabesFromD1(S1, S2, T, sigma, q2, scale, sigmaSqrtT, d1, df1) ==
    MargrabesResult(S1, S2, sigma, scale, d1, Sub(d1, sigmaSqrtT),
                    cdf(d1), cdf(Sub(d1, sigmaSqrtT)), df1, discountFactor(q2, T),
                    Div(Div(Mul(Mul(scale, df1), pdf(d1)), sigmaSqrtT), S1))

\* d1 as the quotient of line 220 in every case
MargrabesWithoutEdgeCase(S1, S2, T, sigma, q1, q2, scale, sigmaSqrtT, callLogSimpleMoneyness) ==
    MargrabesFromD1(S1, S2, T, sigma, q2, scale, sigmaSqrtT,
                    Div(callLogSimpleMoneyness, sigmaSqrtT), discountFactor(q1, T))

\* lines 219-220 and 224, given sigmaSqrtT and callLogSimpleMoneyness
MargrabesFromMoneyness(S1, S2, T, sigma, q1, q2, scale, sigmaSqrtT, callLogSimpleMoneyness) ==
    MargrabesFromD1(S1, S2, T, sigma, q2, scale, sigmaSqrtT,
                    IF StrictEq(callLogSimpleMoneyness, Zero) /\ StrictEq(sigmaSqrtT, Zero)
                    THEN Infinity
                    ELSE Div(callLogSimpleMoneyness, sigmaSqrtT),
                    discountFactor(q1, T))

\* the body of margrabesFormulaShort after its checks
margrabesFormulaShort(S1, S2, T, sigma, q1, q2, scaleArg) ==
    MargrabesFromMoneyness(S1, S2, T, sigma, q1, q2, DefaultScale(scaleArg),
                           Mul(sigma, Sqrt(T)),
                           Add(Ln(Div(S1, S2)),
                               Mul(Add(Sub(q2, q1), Div(Mul(sigma, sigma), Num(2))), T)))

\* line 187: the volatility of the ratio S1 / S2
MargrabesSigma(sigma1, sigma2, rho) ==
    Sqrt(Sub(Add(Mul(sigma1, sigma1), Mul(sigma2, sigma2)),
             Mul(Mul(Mul(Num(2), sigma1), sigma2), rho)))

\* margrabesFormula: its own checks, then the checks and the body of the reduced form
margrabesFormula(a) ==
    Then(assertPositive(a.sigma1, "sigma1"),
    Then(assertPositive(a.sigma2, "sigma2"),
    Then(assertCorrelation(a.rho, "rho"),
    Then(MargrabesChecks([S1 |-> a.S1, S2 |-> a.S2, T |-> a.T,
                          sigma |-> MargrabesSigma(a.sigma1, a.sigma2, a.rho),
                          q1 |-> a.q1, q2 |-> a.q2, scale |-> a.scale]),
         Return(margrabesFormulaShort(a.S1, a.S2, a.T,
                                      MargrabesSigma(a.sigma1, a.sigma2, a.rho),
                                      a.q1, a.q2, a.scale))))))

\* eqBlackScholes checks scale before it delegates
EqChecks(a) ==
    Then(assertNumber(DefaultScale(a.scale), "undefined"), MargrabesChecks(a))

\* lines 279-294, given digitalCall
EqResult(scale, res, df, digitalCall) ==
    [call |-> res.call, put |-> res.put,
     digitalCall |-> digitalCall,
     digitalPut |-> [price |-> Mul(Mul(scale, df), Sub(One, res.N_d2)),
                     delta |-> Neg(digitalCall.delta),
                     gamma |-> Neg(digitalCall.gamma)],
     N_d1 |-> res.N_d1, N_d2 |-> res.N_d2, d1 |-> res.d1, d2 |-> res.d2,
     sigma |-> res.sigma]

\* the digital call priced without the discount factor of line 275
EqDigitalUndiscounted(S, K, scale, res, df, sigmaSqrtT) ==
    EqResult(scale, res, df,
             [price |-> Mul(scale, res.N_d2),
              delta |-> Div(Div(Mul(Mul(scale, df), pdf(res.d2)), sigmaSqrtT), S),
              gamma |-> Div(Div(Div(Mul(Mul(Mul(Neg(scale), df), res.d1), pdf(res.d1)), S), K),
                            Mul(sigmaSqrtT, sigmaSqrtT))])
\* lines 274-278, given res, df and sigmaSqrtT
EqDigital(S, K, scale, res, df, sigmaSqrtT) ==
    EqResult(scale, res, df,
             [price |-> Mul(Mul(scale, df), res.N_d2),
              delta |-> Div(Div(Mul(Mul(scale, df), pdf(res.d2)), sigmaSqrtT), S),
              gamma |-> Div(Div(Div(Mul(Mul(Mul(Neg(scale), df), res.d1), pdf(res.d1)), S), K),
                            Mul(sigmaSqrtT, sigmaSqrtT))])

\* the body of eqBlackScholes(S, K, T, sigma, q, r, scale) after its checks
eqBlackScholes(S, K, T, sigma, q, r, scaleArg) ==
    EqDigital(S, K, DefaultScale(scaleArg),
              margrabesFormulaShort(S, K, T, sigma, q, r, DefaultScale(scaleArg)),
              discountFactor(r, T), Mul(sigma, Sqrt(T)))

fxBlackScholes(S, K, T, sigma, rFor, rDom, scale) ==
    margrabesFormulaShort(S, K, T, sigma, rFor, rDom, scale)

\* irBlack76(F, K, T, sigma, r, scale): the arguments margrabesFormulaShort receives
Black76Args(a) ==
    [S1 |-> Mul(discountFactor(a.q2, a.T), a.S1), S2 |-> a.S2, T |-> a.T,
     sigma |-> a.sigma, q1 |-> Zero, q2 |-> a.q2, scale |-> a.scale]

irBlack76(F, K, T, sigma, r, scale) ==
    margrabesFormulaShort(Mul(discountFactor(r, T), F), K, T, sigma, Zero, r, scale)

PricingOps == {"margrabesFormulaShort", "eqBlackScholes", "fxBlackScholes", "irBlack76"}
PricingSpots == {Zero, One, Num(2), Infinity}
PricingTimes == {Zero, Q(1, 4), One, Num(4)}
PricingVols == {Zero, Q(1, 2), One}
PricingRates == {Zero, Q(1, 20), Q(-1, 10)}
PricingScales == {Undefined, Num(2), Num(-1)}
PricingBad == {StringValue, Undefined, Num(-1), NaN}

\* an argument record: (S1, S2, q1, q2) stand for (S, K, q, r), (S, K, rFor, rDom)
\* and (F, K, -, r) in the derived pricers
PricingDefault ==
    [S1 |-> Num(2), S2 |-> One, T |-> One, sigma |-> Q(1, 2), q1 |-> Zero,
     q2 |-> Q(1, 20), scale |-> Undefined]
PricingArgs ==
    [S1 : PricingSpots, S2 : PricingSpots, T : PricingTimes, sigma : PricingVols,
     q1 : PricingRates, q2 : PricingRates, scale : PricingScales]
    \cup {[PricingDefault EXCEPT ![f] = v] :
            f \in {"S1", "S2", "T", "sigma", "q1", "q2", "scale"}, v \in PricingBad}

\* arguments of margrabesFormula: two volatilities and a correlation
CorrelatedArgs ==
    [S1 : {Num(2), Num(-1), StringValue}, S2 : {One, Undefined}, T : {One, Num(-1)},
     sigma1 : {Zero, Q(1, 2), Num(-1), StringValue, NaN},
     sigma2 : {Zero, Q(1, 2), Num(-1), Undefined, NaN},
     rho : {Num(-1), Zero, Q(1, 2), One, Num(2), Num(-2), StringValue, Undefined, NaN},
     q1 : {Zero, StringValue}, q2 : {Q(1, 20), Undefined}, scale : {Undefined}]

InitPricing ==
    /\ \/ /\ op \in PricingOps
          /\ args \in PricingArgs
          /\ op = "irBlack76" => args.q1 = Zero
       \/ /\ op = "margrabesFormula"
          /\ args \in CorrelatedArgs
       \/ /\ op \in {"pdf", "cdf"}
          /\ args \in [x : {Zero, One, Num(-1), Q(1, 2), Q(-1, 2), Num(2), Num(-2),
                             Num(3), Num(-3), Infinity, NegInfinity, NaN,
                             StringValue, Undefined}]
    /\ pc = "call"
    /\ loc = <<>>
    /\ out = None

CallMargrabesFormulaShort ==
    /\ op = "margrabesFormulaShort" /\ pc = "call"
    /\ out' = Then(MargrabesChecks(args),
                   Return(margrabesFormulaShort(args.S1, args.S2, args.T, args.sigma,
                                                args.q1, args.q2, args.scale)))
    /\ pc' = "done"
    /\ UNCHANGED <<op, args, loc>>

CallEqBlackScholes ==
    /\ op = "eqBlackScholes" /\ pc = "call"
    /\ out' = Then(EqChecks(args),
                   Return(eqBlackScholes(args.S1, args.S2, args.T, args.sigma,
                                         args.q1, args.q2, args.scale)))
    /\ pc' = "done"
    /\ UNCHANGED <<op, args, loc>>

CallFxBlackScholes ==
    /\ op = "fxBlackScholes" /\ pc = "call"
    /\ out' = Then(MargrabesChecks(args),
                   Return(fxBlackScholes(args.S1, args.S2, args.T, args.sigma,
                                         args.q1, args.q2, args.scale)))
    /\ pc' = "done"
    /\ UNCHANGED <<op, args, loc>>

CallIrBlack76 ==
    /\ op = "irBlack76" /\ pc = "call"
    /\ out' = Then(MargrabesChecks(Black76Args(args)),
                   Return(irBlack76(args.S1, args.S2, args.T, args.sigma,
                                    args.q2, args.scale)))
    /\ pc' = "done"
    /\ UNCHANGED <<op, args, loc>>

CallMargrabesFormula ==
    /\ op = "margrabesFormula" /\ pc = "call"
    /\ out' = margrabesFormula(args)
    /\ pc' = "done"
    /\ UNCHANGED <<op, args, loc>>

CallPdf ==
    /\ op = "pdf" /\ pc = "call"
    /\ out' = Then(assertNumber(args.x, "x"), Return(pdf(args.x)))
    /\ pc' = "done"
    /\ UNCHANGED <<op, args, loc>>

CallCdf ==
    /\ op = "cdf" /\ pc = "call"
    /\ out' = Then(assertNumber(args.x, "x"), Return(cdf(args.x)))
    /\ pc' = "done"
    /\ UNCHANGED <<op, args, loc>>

NextPricing ==
    \/ CallMargrabesFormulaShort \/ CallEqBlackScholes \/ CallFxBlackScholes
    \/ CallIrBlack76 \/ CallMargrabesFormula \/ CallPdf \/ CallCdf

SpecPricing == InitPricing /\ [][NextPricing]_vars

PricingReturned == op \in PricingOps /\ pc = "done" /\ out.kind = "return"

\* the arguments with which margrabesFormulaShort ran
MargrabesArgs == IF op = "irBlack76" THEN Black76Args(args) ELSE args

\* C1: put-call parity. Whenever margrabesFormulaShort (called directly or by a
\* derived pricer) returns, call.price - put.price equals
\* scale * (exp(-q1*T)*S1 - exp(-q2*T)*S2).
C1_PutCallParity ==
    PricingReturned =>
        LET a == MargrabesArgs
        IN  StrictEq(Sub(out.value.call.price, out.value.put.price),
                     Mul(DefaultScale(a.scale),
                         Sub(Mul(discountFactor(a.q1, a.T), a.S1),
                             Mul(discountFactor(a.q2, a.T), a.S2))))

\* every argument is a finite number, the two assets are not both worthless and
\* the discount factors have not overflowed
FiniteInputs ==
    LET a == MargrabesArgs
    IN  /\ op \in PricingOps
        /\ \A f \in {"S1", "S2", "T", "sigma", "q1", "q2"} : IsFinite(a[f])
        /\ IsFinite(DefaultScale(a.scale))
        /\ ~(a.S1 = Zero /\ a.S2 = Zero)
        /\ IsFinite(discountFactor(a.q1, a.T)) /\ IsFinite(discountFactor(a.q2, a.T))

\* C1, amended: put-call parity holds whenever margrabesFormulaShort returns on
\* finite arguments of which S1 and S2 are not both 0.
C1_ParityOnFiniteInputs == FiniteInputs => C1_PutCallParity

\* irBlack76(2, 1, 4, 1, 0.05, 2) returned a call and a put of different finite prices
C1_Witness ==
    /\ PricingReturned
    /\ op = "irBlack76"
    /\ args = [S1 |-> Num(2), S2 |-> One, T |-> Num(4), sigma |-> One, q1 |-> Zero,
               q2 |-> Q(1, 20), scale |-> Num(2)]
    /\ FiniteInputs
    /\ IsFinite(out.value.call.price) /\ IsFinite(out.value.put.price)
    /\ out.value.call.price # out.value.put.price

\* the prices of the call with the two assets and their rates swapped
Swapped ==
    LET a == MargrabesArgs
    IN  margrabesFormulaShort(a.S2, a.S1, a.T, a.sigma, a.q2, a.q1, a.scale)

\* C2: symmetry law. Whenever margrabesFormulaShort returns, its call price is the
\* put price of the call with assets and rates swapped, and its put price is the
\* call price of that call (a NaN price is matched by a NaN price).
C2_Symmetry ==
    PricingReturned =>
        /\ out.value.call.price = Swapped.put.price
        /\ out.value.put.price = Swapped.call.price

\* margrabesFormulaShort(2, 1, 1, 0.5, 0, 0.05) returned two different finite prices
C2_Witness ==
    /\ PricingReturned
    /\ op = "margrabesFormulaShort"
    /\ args = PricingDefault
    /\ IsFinite(out.value.call.price) /\ IsFinite(out.value.put.price)
    /\ Gt(out.value.call.price, out.value.put.price)
    /\ Gt(out.value.put.price, Zero)

\* C19 as claimed: digital complementarity. Whenever eqBlackScholes returns,
\* digitalCall.price + digitalPut.price equals scale * exp(-r*T), and delta and
\* gamma of the digital put are those of the digital call negated.
C19_DigitalComplementarity ==
    (PricingReturned /\ op = "eqBlackScholes") =>
        /\ StrictEq(Add(out.value.digitalCall.price, out.value.digitalPut.price),
                    Mul(DefaultScale(args.scale), discountFactor(args.q2, args.T)))
        /\ out.value.digitalPut.delta = Neg(out.value.digitalCall.delta)
        /\ out.value.digitalPut.gamma = Neg(out.value.digitalCall.gamma)

\* C19 amended: digital complementarity holds whenever eqBlackScholes returns on
\* finite arguments of which S and K are not both 0.
C19_ComplementarityOnFiniteInputs == FiniteInputs => C19_DigitalComplementarity

\* eqBlackScholes(2, 1, 4, 1, 0, 0.05, 2) returned two different positive digital prices
C19_Witness ==
    /\ PricingReturned
    /\ op = "eqBlackScholes"
    /\ args = [S1 |-> Num(2), S2 |-> One, T |-> Num(4), sigma |-> One, q1 |-> Zero,
               q2 |-> Q(1, 20), scale |-> Num(2)]
    /\ FiniteInputs
    /\ Gt(out.value.digitalCall.price, Zero)
    /\ Gt(out.value.digitalPut.price, Zero)
    /\ out.value.digitalCall.price # out.value.digitalPut.price
    /\ out.value.digitalCall.gamma # Zero

\* C20: whenever cdf(x) returns, its value is 1 - cdf(-x), and it is 0.5 at x = 0;
\* whenever pdf(x) returns, its value is pdf(-x) (at NaN both sides are NaN).
C20_Reflective ==
    (op \in {"pdf", "cdf"} /\ pc = "done" /\ out.kind = "return") =>
        /\ op = "cdf" => out.value = Sub(One, cdf(Neg(args.x)))
        /\ (op = "cdf" /\ args.x = Zero) => out.value = Q(1, 2)
        /\ op = "pdf" => out.value = pdf(Neg(args.x))

\* cdf(-1) returned a probability below one half, the complement of cdf(1)
C20_Witness ==
    /\ op = "cdf" /\ pc = "done" /\ out.kind = "return"
    /\ args.x = Num(-1)
    /\ Gt(out.value, Zero) /\ Lt(out.value, Q(1, 2))
    /\ Add(out.value, cdf(One)) = One

\* C21 as claimed: margrabesFormulaShort throws whenever S1, S2, T or sigma is <= 0
\* or not a number, or q1 or q2 is not a number, and returns only when S1, S2, T
\* and sigma are all > 0.
C21_StrictlyPositiveArguments ==
    (op = "margrabesFormulaShort" /\ pc = "done") =>
        /\ (\/ \E f \in {"S1", "S2", "T", "sigma"} : ~IsNumber(args[f]) \/ Le(args[f], Zero)
            \/ ~IsNumber(args.q1) \/ ~IsNumber(args.q2)) => Throws(out)
        /\ out.kind = "return" => \A f \in {"S1", "S2", "T", "sigma"} : Gt(args[f], Zero)

\* C21 amended: margrabesFormulaShort throws exactly when S1, S2, T or sigma is
\* not a number or is < 0, or q1, q2 or a given scale is not a number; it returns
\* a result on every other input, 0 included.
C21_NegativeArgumentsRejected ==
    (op = "margrabesFormulaShort" /\ pc = "done") =>
        /\ Throws(out) <=>
            \/ \E f \in {"S1", "S2", "T", "sigma"} : ~IsNumber(args[f]) \/ Lt(args[f], Zero)
            \/ ~IsNumber(args.q1) \/ ~IsNumber(args.q2)
            \/ (args.scale # Undefined /\ ~IsNumber(args.scale))
        /\ ~Throws(out) => out.kind = "return"

\* margrabesFormulaShort(2, 1, 0, 0.5, 0, 0.05) has returned a finite call price
C21_Witness ==
    /\ op = "margrabesFormulaShort" /\ pc = "done"
    /\ args.S1 = Num(2) /\ args.S2 = One /\ args.T = Zero /\ args.sigma = Q(1, 2)
    /\ out.kind = "return"
    /\ IsFinite(out.value.call.price)

\* C22: margrabesFormula throws, and returns no result, when S1, S2, T, sigma1 or
\* sigma2 is negative, when rho is outside [-1, 1], or when any of S1, S2, T,
\* sigma1, sigma2, rho, q1, q2 is not a number; when sigma1, sigma2 or rho is the
\* offender the message names the first of them, whatever the other arguments
\* are, so they are checked before the reduced form is.
C22_MargrabesFormulaRejects ==
    (op = "margrabesFormula" /\ pc = "done") =>
        /\ (\/ \E f \in {"S1", "S2", "T", "sigma1", "sigma2"} :
                  ~IsNumber(args[f]) \/ Lt(args[f], Zero)
            \/ ~IsNumber(args.rho) \/ Lt(args.rho, Num(-1)) \/ Gt(args.rho, One)
            \/ ~IsNumber(args.q1) \/ ~IsNumber(args.q2))
           => Throws(out) /\ out.kind # "return"
        /\ (~IsNumber(args.sigma1) \/ Lt(args.sigma1, Zero)) => out.name = "sigma1"
        /\ (/\ IsNumber(args.sigma1) /\ ~Lt(args.sigma1, Zero)
            /\ ~IsNumber(args.sigma2) \/ Lt(args.sigma2, Zero)) => out.name = "sigma2"
        /\ (/\ IsNumber(args.sigma1) /\ ~Lt(args.sigma1, Zero)
            /\ IsNumber(args.sigma2) /\ ~Lt(args.sigma2, Zero)
            /\ \/ ~IsNumber(args.rho)
               \/ Lt(args.rho, Num(-1)) \/ Gt(args.rho, One)) => out.name = "rho"

\* margrabesFormula has rejected rho = 2 although S1 is not a number either
C22_Witness ==
    /\ op = "margrabesFormula" /\ pc = "done"
    /\ args.rho = Num(2) /\ args.S1 = StringValue
    /\ args.sigma1 = Q(1, 2) /\ args.sigma2 = Q(1, 2)
    /\ Throws(out) /\ out.name = "rho"

\* C23: every validation failure carries a message that starts with the name of
\* the offending parameter. When margrabesFormulaShort or margrabesFormula throws,
\* the name at the head of the message is one of the parameters and the argument
\* passed for it is the offender (not a number, negative, or a correlation
\* outside [-1, 1]); when eqBlackScholes is given a scale that is not a number,
\* the message starts with "scale"; pdf and cdf name x.
C23_MessageNamesParameter ==
    (pc = "done" /\ Throws(out)) =>
        /\ op \in {"margrabesFormulaShort", "margrabesFormula"} =>
              /\ out.name \in DOMAIN args
              /\ \/ ~IsNumber(args[out.name])
                 \/ Lt(args[out.name], Zero)
                 \/ out.name = "rho" /\ Gt(args.rho, One)
        /\ (op = "eqBlackScholes" /\ args.scale # Undefined /\ ~IsNumber(args.scale)) =>
              out.name = "scale"
        /\ op \in {"pdf", "cdf"} => out.name = "x"

\* C27: whenever margrabesFormulaShort returns with logMoneyness = 0 and
\* sigmaSqrtT = 0, d1 and d2 are +Infinity, N_d1 = N_d2 = 1,
\* call.price = scale*(df1*S1 - df2*S2) and put.price = 0; in every other case
\* d1 = logMoneyness / sigmaSqrtT and d2 = d1 - sigmaSqrtT.
C27_MoneynessEdgeCase ==
    PricingReturned =>
        LET a == MargrabesArgs
            sigmaSqrtT == Mul(a.sigma, Sqrt(a.T))
            logMoneyness == Add(Ln(Div(a.S1, a.S2)),
                                Mul(Add(Sub(a.q2, a.q1), Div(Mul(a.sigma, a.sigma), Num(2))),
                                    a.T))
        IN  IF StrictEq(logMoneyness, Zero) /\ StrictEq(sigmaSqrtT, Zero)
            THEN /\ out.value.d1 = Infinity /\ out.value.d2 = Infinity
                 /\ out.value.N_d1 = One /\ out.value.N_d2 = One
                 /\ out.value.call.price =
                        Mul(DefaultScale(a.scale),
                            Sub(Mul(discountFactor(a.q1, a.T), a.S1),
                                Mul(discountFactor(a.q2, a.T), a.S2)))
                 /\ out.value.put.price = Zero
            ELSE /\ out.value.d1 = Div(logMoneyness, sigmaSqrtT)
                 /\ out.value.d2 = Sub(out.value.d1, sigmaSqrtT)

\* margrabesFormulaShort(2, 2, 1, 0, 0.05, 0.05, 2), of zero volatility and at
\* the money, has returned d1 = +Infinity and a put worth 0
C27_Witness ==
    /\ PricingReturned /\ op = "margrabesFormulaShort"
    /\ args = [S1 |-> Num(2), S2 |-> Num(2), T |-> One, sigma |-> Zero,
               q1 |-> Q(1, 20), q2 |-> Q(1, 20), scale |-> Num(2)]
    /\ out.value.d1 = Infinity /\ out.value.d2 = Infinity
    /\ out.value.N_d1 = One
    /\ out.value.put.price = Zero /\ out.value.call.price = Zero

----------------------------------------------------------------------------
(* irForwardPrice, irFlatDiscountCurve and irInternalRateOfReturn *)

\* An array argument is [array |-> TRUE, items |-> its elements]; any other value
\* is [array |-> FALSE, items |-> <<>>].
NotAnArray == [array |-> FALSE, items |-> <<>>]
ArrayOf(items) == [array |-> TRUE, items |-> items]

assertNonEmptyArray(value, name) ==
    IF ~value.array THEN Throw(name, "must be a array")
    ELSE IF Len(value.items) < 1
         THEN Throw(name, "must contain at least one element, got zero")
         ELSE None

\* A cashflow is [t, value, notional, T]; a FixedCashflow has no notional and no T.
FixedCashflow(t, value) ==
    [t |-> t, value |-> value, notional |-> Undefined, T |-> Undefined]

\* a FloatingCashflow fixes at t and pays at T
FloatingCashflow(t, T, notional) ==
    [t |-> t, value |-> Undefined, notional |-> notional, T |-> T]

SpotRate(t, rate) == [t |-> t, rate |-> rate]

\* the closure returned by irFlatDiscountCurve(flatRate), as data
irFlatDiscountCurve(flatRate) == [kind |-> "flat", flatRate |-> flatRate]

\* A spot rate is [t, rate]. spotRates.sort((rate1, rate2) => rate1.t - rate2.t):
\* ascending in t, spot rates of equal t in the order they had (the sort is stable)
\* the spot rates left in the order given (without line 498)
Unsorted(items) == items
RECURSIVE SortedByT(_)
SortedByT(items) ==
    IF items = <<>> THEN <<>>
    ELSE LET rest == SortedByT(Tail(items))
             k == Cardinality({j \in 1..Len(rest) : Lt(rest[j].t, Head(items).t)})
         IN  SubSeq(rest, 1, k) \o <<Head(items)>> \o SubSeq(rest, k + 1, Len(rest))

\* the closure returned by irLinearInterpolationSpotCurve(spotRates), as data:
\* it holds the sorted copy
irLinearInterpolationSpotCurve(spotRates) ==
    [kind |-> "linear", spotRates |-> SortedByT(spotRates.items)]

\* the caller's array sorted where it is, without the copy of line 497
SortedInPlace(spotRates, sorted) == ArrayOf(sorted)
\* the caller's array once line 498 has sorted the copy
CallerArray(spotRates, sorted) == spotRates

RECURSIVE InterpolateFrom(_, _, _)
\* the loop of lines 504-509 from the spot rate at position i on (index i - 1)
InterpolateFrom(spotRates, t, i) ==
    IF i > Len(spotRates) THEN spotRates[Len(spotRates)].rate
    ELSE IF Lt(t, spotRates[i].t)
         THEN Add(spotRates[i-1].rate,
                  Mul(Div(Sub(spotRates[i].rate, spotRates[i-1].rate),
                          Sub(spotRates[i].t, spotRates[i-1].t)),
                      Sub(t, spotRates[i-1].t)))
         ELSE InterpolateFrom(spotRates, t, i + 1)

\* the closures returned by the two conversions, as data
irSpotCurve2DiscountCurve(spotCurve) == [kind |-> "discount", spotCurve |-> spotCurve]
irDiscountCurve2SpotCurve(discountCurve) == [kind |-> "spot", discountCurve |-> discountCurve]

irDiscountCurveConversionTimeCutoff == <<1, 100000000>>

\* the cut-off applied to positive t only
ClampedTimeAboveZero(t) ==
    IF Gt(t, Zero) /\ Le(t, irDiscountCurveConversionTimeCutoff)
    THEN irDiscountCurveConversionTimeCutoff ELSE t
\* t after lines 543-545
ClampedTime(t) ==
    IF Ge(t, Zero) /\ Le(t, irDiscountCurveConversionTimeCutoff)
    THEN irDiscountCurveConversionTimeCutoff ELSE t

RECURSIVE CurveAt(_, _)
\* curve(t) with the sign of the logarithm of line 546 left out
CurveAtUnsigned(curve, t) ==
    IF curve.kind = "flat" THEN Exp(Mul(Neg(curve.flatRate), t))
    ELSE IF curve.kind = "linear"
    THEN IF Lt(t, curve.spotRates[1].t) THEN curve.spotRates[1].rate
         ELSE InterpolateFrom(curve.spotRates, t, 2)
    ELSE IF curve.kind = "discount"
    THEN Exp(Mul(Neg(CurveAt(curve.spotCurve, t)), t))
    ELSE Div(Ln(CurveAt(curve.discountCurve, ClampedTime(t))), ClampedTime(t))
\* curve(t) for a number t, curve a discount curve or a spot curve
CurveAt(curve, t) ==
    IF curve.kind = "flat" THEN Exp(Mul(Neg(curve.flatRate), t))
    ELSE IF curve.kind = "linear"
    THEN IF Lt(t, curve.spotRates[1].t) THEN curve.spotRates[1].rate
         ELSE InterpolateFrom(curve.spotRates, t, 2)
    ELSE IF curve.kind = "discount"
    THEN Exp(Mul(Neg(CurveAt(curve.spotCurve, t)), t))
    ELSE Div(Neg(Ln(CurveAt(curve.discountCurve, ClampedTime(t)))), ClampedTime(t))

\* the forward rate with the two discount factors exchanged
ForwardRateBackwards(floatingRate, discountCurve) ==
    Div(Sub(Div(CurveAt(discountCurve, floatingRate.T),
                CurveAt(discountCurve, floatingRate.t)), One),
        Sub(floatingRate.T, floatingRate.t))
irForwardLinearRate(floatingRate, discountCurve) ==
    Div(Sub(Div(CurveAt(discountCurve, floatingRate.t),
                CurveAt(discountCurve, floatingRate.T)), One),
        Sub(floatingRate.T, floatingRate.t))

\* a cashflow paid at time counts only after t
PayableAfter(time, t) == Gt(time, t)
\* lines 406 and 415: a cashflow paid at time counts at t
Payable(time, t) == Ge(time, t)

RECURSIVE ForwardPriceFrom(_, _, _, _, _)
\* the loop of irForwardPrice from index i on, with fw accumulated so far
ForwardPriceFrom(cashflows, discountCurve, t, i, fw) ==
    IF i > Len(cashflows) THEN fw
    ELSE LET cf == cashflows[i]
             df_t == CurveAt(discountCurve, t)
             term ==
                 IF IsNumber(cf.notional)
                 THEN IF Payable(cf.T, t)
                      THEN Div(Mul(Mul(Mul(cf.notional,
                                           irForwardLinearRate(cf, discountCurve)),
                                       Sub(cf.T, cf.t)),
                                   CurveAt(discountCurve, cf.T)), df_t)
                      ELSE Zero
                 ELSE IF Payable(cf.t, t)
                      THEN Div(Mul(cf.value, CurveAt(discountCurve, cf.t)), df_t)
                      ELSE Zero
         IN  ForwardPriceFrom(cashflows, discountCurve, t, i + 1, Add(fw, term))

irForwardPrice(cashflows, discountCurve, t) ==
    ForwardPriceFrom(cashflows, discountCurve, t, 1, Zero)

\* the default parameter values of irInternalRateOfReturn
DefaultTo(value, default) == IF value = Undefined THEN default ELSE value
R0(a) == DefaultTo(a.r0, Zero)
R1(a) == DefaultTo(a.r1, Q(5, 100))
Abstol(a) == DefaultTo(a.abstol, <<1, 100000000>>)
Maxiter(a) == DefaultTo(a.maxiter, Num(100))

\* r0 === r1
SameGuessNever(r0, r1) == FALSE
SameGuess(r0, r1) == StrictEq(r0, r1)

IrrChecks(a) ==
    Then(assertNonEmptyArray(a.cashflows, "cashflows"),
    Then(assertNumber(R0(a), "r0"),
    Then(assertNumber(R1(a), "r1"),
    Then(assertNumber(Abstol(a), "abstol"),
    Then(assertNumber(Maxiter(a), "maxiter"),
         IF SameGuess(R0(a), R1(a))
         THEN Throw("", "r0 and r1 initial IRR guesses have to be different")
         ELSE None)))))

npv(cashflows, r) == irForwardPrice(cashflows, irFlatDiscountCurve(r), Zero)

\* Math.abs(npv_current) <= abstol
ConvergedAlways(npv_current, abstol) == TRUE
Converged(npv_current, abstol) == Le(AbsNum(npv_current), abstol)

\* the next iterate of the secant method
SecantNext(last, current, npv_last, npv_current) ==
    Sub(current, Div(Mul(npv_current, Sub(current, last)), Sub(npv_current, npv_last)))

\* i <= maxiter
LoopRuns(i, maxiter) == Le(Num(i), maxiter)

\* the loop counter stops growing at IterCap, as a double stops growing at 2^53
IterCap == 110
Increment(i) == IF i < IterCap THEN i + 1 ELSE i

IrrCashflows ==
    {NotAnArray, ArrayOf(<<>>),
     ArrayOf(<<FixedCashflow(One, One)>>),
     ArrayOf(<<FixedCashflow(Zero, One)>>),
     ArrayOf(<<FixedCashflow(Zero, One), FixedCashflow(One, One)>>),
     ArrayOf(<<FixedCashflow(Zero, Num(-1)), FixedCashflow(One, One)>>),
     ArrayOf(<<FixedCashflow(Zero, Num(-1)), FixedCashflow(One, Num(2))>>)}
IrrArgs ==
    [cashflows : IrrCashflows,
     r0 : {Undefined, Q(1, 20), StringValue},
     r1 : {Undefined, One, StringValue},
     abstol : {Undefined, Q(1, 100), Num(-1), Infinity, StringValue},
     maxiter : {Undefined, Num(2), Zero, Num(-2), Q(3, 2), Infinity, NaN, StringValue}]

\* checks and npvs count the convergence checks and the evaluations of npv so far
IrrLocals ==
    [last |-> NaN, current |-> NaN, npv_last |-> NaN, i |-> 0, checks |-> 0, npvs |-> 0]

InitIRR ==
    /\ op = "irInternalRateOfReturn"
    /\ args \in IrrArgs
    /\ pc = "call"
    /\ loc = IrrLocals
    /\ out = None

\* the checks, then last = r0, current = r1, npv_last = npv(last)
IrrEnter ==
    /\ op = "irInternalRateOfReturn" /\ pc = "call"
    /\ IF Throws(IrrChecks(args))
       THEN /\ out' = IrrChecks(args)
            /\ pc' = "done"
            /\ UNCHANGED loc
       ELSE /\ loc' = [last |-> R0(args), current |-> R1(args),
                       npv_last |-> npv(args.cashflows.items, R0(args)),
                       i |-> 0, checks |-> 0, npvs |-> 1]
            /\ pc' = "loop"
            /\ UNCHANGED out
    /\ UNCHANGED <<op, args>>

\* the loop condition holds: the body runs
IrrTest ==
    /\ op = "irInternalRateOfReturn" /\ pc = "loop"
    /\ LoopRuns(loc.i, Maxiter(args))
    /\ pc' = "body"
    /\ UNCHANGED <<op, args, loc, out>>

\* the body finds npv(current) within abstol
IrrReturn ==
    /\ op = "irInternalRateOfReturn" /\ pc = "body"
    /\ Converged(npv(args.cashflows.items, loc.current), Abstol(args))
    /\ out' = Return(loc.current)
    /\ loc' = [loc EXCEPT !.checks = Increment(@), !.npvs = Increment(@)]
    /\ pc' = "done"
    /\ UNCHANGED <<op, args>>

\* the body does not: the window shifts, i++
IrrIterate ==
    /\ op = "irInternalRateOfReturn" /\ pc = "body"
    /\ LET npv_current == npv(args.cashflows.items, loc.current)
       IN  /\ ~Converged(npv_current, Abstol(args))
           /\ loc' = [last |-> loc.current,
                      npv_last |-> npv_current,
                      current |-> SecantNext(loc.last, loc.current, loc.npv_last, npv_current),
                      i |-> Increment(loc.i),
                      checks |-> Increment(loc.checks),
                      npvs |-> Increment(loc.npvs)]
    /\ pc' = "loop"
    /\ UNCHANGED <<op, args, out>>

\* the loop condition fails
IrrExhausted ==
    /\ op = "irInternalRateOfReturn" /\ pc = "loop"
    /\ ~LoopRuns(loc.i, Maxiter(args))
    /\ out' = Throw("", "maximum number of iterations reached")
    /\ pc' = "done"
    /\ UNCHANGED <<op, args, loc>>

NextIRR == IrrEnter \/ IrrTest \/ IrrReturn \/ IrrIterate \/ IrrExhausted

SpecIRR == InitIRR /\ [][NextIRR]_vars

\* a call that has not ended goes on to its next position
Running == pc # "done" /\ pc' \in {"loop", "body", "done"}

\* JavaScript runs a synchronous call without pause
SpecIRRFair == SpecIRR /\ WF_pc(Running)

IrrDone == op = "irInternalRateOfReturn" /\ pc = "done"
IrrReturned == IrrDone /\ out.kind = "return"

MaximumReached == "maximum number of iterations reached"

\* C3: the solver always terminates, and when it gives up on a maxiter that is a
\* whole number >= 0 it has made exactly maxiter + 1 convergence checks.
C3_TerminatesAfterMaxiterChecks ==
    /\ <>(pc = "done")
    /\ []((/\ IrrDone /\ out.text = MaximumReached
           /\ IsFinite(Maxiter(args)) /\ Maxiter(args)[2] = 1 /\ Maxiter(args)[1] >= 0)
            => loc.checks = Maxiter(args)[1] + 1)

\* C4: a returned rate has |npv| within abstol, and an iteration that does not
\* return shifts the window: last becomes current, current becomes
\* current - npv(current)*(current - last)/(npv(current) - npv(last)).
C4_ReturnedWithinTolerance ==
    /\ [](IrrReturned
            => Le(AbsNum(npv(args.cashflows.items, out.value)), Abstol(args)))
    /\ [][pc = "body" /\ pc' = "loop"
            => LET npv_current == npv(args.cashflows.items, loc.current)
               IN  /\ loc'.last = loc.current
                   /\ loc'.npv_last = npv_current
                   /\ loc'.current =
                        Sub(loc.current,
                            Div(Mul(npv_current, Sub(loc.current, loc.last)),
                                Sub(npv_current, npv(args.cashflows.items, loc.last))))]_vars

\* irInternalRateOfReturn([{t: 0, value: -1}, {t: 1, value: 2}]) returned a rate
\* other than r1, with the default tolerance, after shifting the window
C4_Witness ==
    /\ IrrReturned
    /\ args.abstol = Undefined /\ args.r0 = Undefined /\ args.r1 = Undefined
    /\ Len(args.cashflows.items) = 2
    /\ loc.checks >= 4
    /\ Gt(out.value, Q(1, 2)) /\ Lt(out.value, One)

\* an argument that the checks of irInternalRateOfReturn reject
BadIrrArguments ==
    \/ ~args.cashflows.array
    \/ Len(args.cashflows.items) = 0
    \/ \E v \in {R0(args), R1(args), Abstol(args), Maxiter(args)} : v[2] < 0
    \/ (R0(args) = R1(args) /\ R0(args) # NaN)

\* C5: on cashflows that are not a non-empty array, on an r0, r1, abstol or maxiter
\* that is not a number and on r0 = r1 the call throws without having evaluated npv.
C5_ThrowsBeforeAnyNpv ==
    (op = "irInternalRateOfReturn" /\ pc # "call" /\ BadIrrArguments)
        => (pc = "done" /\ Throws(out) /\ out.text # MaximumReached /\ loc.npvs = 0)

\* irInternalRateOfReturn(cashflows, 0.05) with the default r1 = 0.05 has thrown
C5_Witness ==
    /\ IrrDone
    /\ args.cashflows.array /\ Len(args.cashflows.items) > 0
    /\ args.r0 = Q(1, 20) /\ args.r1 = Undefined
    /\ args.abstol = Undefined /\ args.maxiter = Undefined
    /\ out.text = "r0 and r1 initial IRR guesses have to be different"
    /\ loc.npvs = 0

\* C6: with the default r0, r1, abstol and maxiter, a list of cashflows that are
\* all positive makes the call throw.
C6_AllPositiveThrows ==
    (/\ IrrDone
     /\ args.r0 = Undefined /\ args.r1 = Undefined
     /\ args.abstol = Undefined /\ args.maxiter = Undefined
     /\ args.cashflows.array /\ Len(args.cashflows.items) > 0
     /\ \A k \in 1..Len(args.cashflows.items) : Gt(args.cashflows.items[k].value, Zero))
        => Throws(out)

----------------------------------------------------------------------------
(* Bond, irForwardPrice and the spot and discount curves *)

RECURSIVE RollLoop(_, _, _, _, _, _)
\* the loop of irRollFromEnd (lines 464-470) as a function of its locals
RollLoop(start, yearfraction, nPayments, t, i, schedule) ==
    IF ~Lt(Num(i), nPayments) \/ TooClose(t, start) THEN schedule
    ELSE RollLoop(start, yearfraction, nPayments, Sub(t, yearfraction), i + 1,
                  Unshift(schedule, t))

\* the outcome of irRollFromEnd(start, end, frequency)
irRollFromEnd(start, end, frequency) ==
    Then(RollChecks([start |-> start, end |-> end, frequency |-> frequency]),
         Return(RollLoop(start, Div(One, frequency), NPayments(start, end, frequency),
                         end, 0, <<>>)))

\* the checks of the Bond constructor
BondChecks(a) ==
    Then(assertNumber(a.notional, "notional"),
    Then(assertNumber(a.coupon, "coupon"),
    Then(assertNumber(a.start, "start"),
    Then(assertNumber(a.end, "end"),
         assertFrequency(a.frequency, "frequency")))))

\* the coupons with lastT left at start (without line 633)
CouponsFromStart(bond, schedule) ==
    [k \in 1..Len(schedule) |->
        FixedCashflow(schedule[k],
                      Mul(Mul(bond.notional, bond.coupon), Sub(schedule[k], bond.start)))]
\* lines 629-635: one coupon per date of the schedule, lastT the date before it
Coupons(bond, schedule) ==
    [k \in 1..Len(schedule) |->
        FixedCashflow(schedule[k],
                      Mul(Mul(bond.notional, bond.coupon),
                          Sub(schedule[k], IF k = 1 THEN bond.start ELSE schedule[k-1])))]

\* the getter with the schedule rolled before the test of coupon === 0
BondCashflowsScheduleFirst(bond) ==
    IF Throws(irRollFromEnd(bond.start, bond.end, bond.frequency))
    THEN irRollFromEnd(bond.start, bond.end, bond.frequency)
    ELSE IF StrictEq(bond.coupon, Zero)
    THEN Return(<<FixedCashflow(bond.end, bond.notional)>>)
    ELSE Return(Coupons(bond, irRollFromEnd(bond.start, bond.end, bond.frequency).value)
                \o <<FixedCashflow(bond.end, bond.notional)>>)

\* the outcome of the getter cashflows of a bond (lines 623-638)
BondCashflows(bond) ==
    LET schedule == irRollFromEnd(bond.start, bond.end, bond.frequency)
    IN  IF StrictEq(bond.coupon, Zero)
        THEN Return(<<FixedCashflow(bond.end, bond.notional)>>)
        ELSE IF Throws(schedule) THEN schedule
        ELSE Return(Coupons(bond, schedule.value)
                    \o <<FixedCashflow(bond.end, bond.notional)>>)

\* the body of the loop of irInternalRateOfReturn (lines 577-584) on the locals st
IrrBody(a, st, npv_current) ==
    IF Converged(npv_current, Abstol(a))
    THEN [st EXCEPT !.out = Return(st.current)]
    ELSE [last |-> st.current, npv_last |-> npv_current,
          current |-> SecantNext(st.last, st.current, st.npv_last, npv_current),
          i |-> Increment(st.i), out |-> None]

\* one pass of the loop (lines 576-586): its test, then its body or the throw
IrrStep(a, st) ==
    IF ~LoopRuns(st.i, Maxiter(a))
    THEN [st EXCEPT !.out = Throw("", "maximum number of iterations reached")]
    ELSE IrrBody(a, st, npv(a.cashflows.items, st.current))

\* the working copy of yieldToMaturity: [...this.cashflows] with {t: 0, value: -npv}
\* put in front
Unshifted(presentValue) == <<FixedCashflow(Zero, Neg(presentValue))>>

\* the call irInternalRateOfReturn(cashflows) of line 675 on the working copy,
\* the other arguments left to their defaults
YieldArguments(bond, presentValue) ==
    [cashflows |-> ArrayOf(Unshifted(presentValue) \o BondCashflows(bond).value),
     r0 |-> Undefined, r1 |-> Undefined, abstol |-> Undefined, maxiter |-> Undefined]

\* what bond.yieldToMaturity(npv) can throw before the loop of
\* irInternalRateOfReturn: lines 669-673 and the checks of lines 564-571
YieldChecks(bond, npvArg) ==
    Then(assertNumber(DefaultTo(npvArg, bond.notional), "undefined"),
         IF Throws(BondCashflows(bond)) THEN BondCashflows(bond)
         ELSE IrrChecks(YieldArguments(bond, DefaultTo(npvArg, bond.notional))))

\* the loop of lines 690-693 from cashflow i on, time_weighted_cfs the sum so far
RECURSIVE TimeWeighted(_, _, _, _)
TimeWeighted(cashflows, y, i, time_weighted_cfs) ==
    IF i > Len(cashflows) THEN time_weighted_cfs
    ELSE TimeWeighted(cashflows, y, i + 1,
                      Add(time_weighted_cfs,
                          Mul(Mul(cashflows[i].t, cashflows[i].value),
                              Exp(Mul(Neg(y), cashflows[i].t)))))

\* lines 689-694 of duration, given the outcome y of yieldToMaturity
DurationFrom(bond, presentValue, y) ==
    IF Throws(y) THEN y
    ELSE Return(Div(TimeWeighted(BondCashflows(bond).value, y.value, 1, Zero), presentValue))

\* a getter that hands out one array, the one yieldToMaturity unshifts into
CashflowsReadShared(bond, unshifted) ==
    IF Throws(BondCashflows(bond)) THEN BondCashflows(bond)
    ELSE Return(unshifted \o BondCashflows(bond).value)

\* what a read of bond.cashflows gives after the calls made so far: the getter
\* builds a new array on each read (lines 623-638)
CashflowsRead(bond, unshifted) == BondCashflows(bond)

\* the arguments (F, K, T, sigma, r, scale) that irBlack76CapletFloorlet hands to
\* irBlack76 (lines 362-369), as the record (S1, S2, T, sigma, q2, scale)
CapletBlack76Args(floatingRate, K, sigma, spotCurve) ==
    [S1 |-> irForwardLinearRate(floatingRate, irSpotCurve2DiscountCurve(spotCurve)),
     S2 |-> K, T |-> floatingRate.t, sigma |-> sigma, q1 |-> Zero,
     q2 |-> CurveAt(spotCurve, floatingRate.t),
     scale |-> Mul(Mul(floatingRate.notional, Sub(floatingRate.T, floatingRate.t)),
                   Div(CurveAt(irSpotCurve2DiscountCurve(spotCurve), floatingRate.T),
                       CurveAt(irSpotCurve2DiscountCurve(spotCurve), floatingRate.t)))]

\* the outcome of irBlack76 on an argument record, its checks included
Black76Outcome(a) ==
    Then(MargrabesChecks(Black76Args(a)),
         Return(irBlack76(a.S1, a.S2, a.T, a.sigma, a.q2, a.scale)))

\* irBlack76CapletFloorlet without the branch of the rate that has fixed
CapletAlwaysPriced(floatingRate, K, sigma, spotCurve) ==
    Black76Outcome(CapletBlack76Args(floatingRate, K, sigma, spotCurve))

irBlack76CapletFloorlet(floatingRate, K, sigma, spotCurve) ==
    IF Gt(floatingRate.t, Zero)
    THEN Black76Outcome(CapletBlack76Args(floatingRate, K, sigma, spotCurve))
    ELSE Return([call |-> [price |-> Zero], put |-> [price |-> Zero]])

\* caplets on rates that fix in the future, fix now, have fixed, and on a fixing
\* time of NaN; strikes and volatilities good and bad; three spot curves
CapletArgs ==
    [floatingRate : {FloatingCashflow(g[1], g[2], n) :
                        g \in {<<Q(-1, 2), Q(1, 2)>>, <<Zero, Q(1, 2)>>, <<Q(1, 2), One>>,
                               <<One, Num(2)>>, <<NaN, One>>},
                        n \in {Num(100), Num(50)}},
     K : {Q(1, 25), Zero, Num(-1), StringValue},
     sigma : {Q(1, 5), Zero, Undefined},
     spotCurve : {irLinearInterpolationSpotCurve(ArrayOf(<<SpotRate(One, Q(1, 25))>>)),
                  irLinearInterpolationSpotCurve(
                      ArrayOf(<<SpotRate(Num(2), Q(3, 50)), SpotRate(One, Q(1, 25))>>)),
                  irDiscountCurve2SpotCurve(irFlatDiscountCurve(Q(1, 20)))}]

\* the two runs of a bond: "Bond" constructs it, reads its cashflows and prices
\* it forward; "Bond methods" calls every method of it, in any order
BondOps == {"Bond", "Bond methods"}

\* the bonds of the second run: with and without coupon, on one whole period, on
\* two periods, on a period and a stub too short for a date of its own, and on
\* [start, end] too short for a schedule
MethodBondArgs ==
    {[notional |-> Num(100), coupon |-> c, start |-> g[1], end |-> Add(g[1], g[2]),
      frequency |-> g[3]] :
        c \in {Zero, Q(1, 25)},
        g \in {<<Zero, One, One>>, <<Q(1, 10), One, Num(2)>>,
               <<Zero, Q(2001, 2000), One>>,
               <<Zero, Q(1, 2000), One>>, <<Q(1, 10), Zero, Num(4)>>}}

\* the present values passed to yieldToMaturity and duration: none, the value
\* 104 * exp(-0.05) of a one-year 4% bond at a yield of 5%, and a string
BondNpvs == {Undefined, Q(98904, 1000), StringValue}

\* the bonds constructed: 100 of notional, with and without coupon, on whole and
\* fractional periods, and one argument of a bad type or NaN at a time
BondArgs ==
    {[notional |-> Num(100), coupon |-> c, start |-> s, end |-> Add(s, l), frequency |-> f] :
        c \in {Zero, Q(1, 25), Q(-1, 20)}, s \in {Zero, Q(1, 10)},
        l \in {One, Q(5, 2), Q(1, 2000), Zero}, f \in {One, Num(2), Num(4), NaN}}
    \cup {[[notional |-> Num(100), coupon |-> Q(1, 25), start |-> Zero, end |-> One,
            frequency |-> Num(2)] EXCEPT ![f] = v] :
            f \in {"notional", "coupon", "start", "end", "frequency"},
            v \in {StringValue, Undefined, NaN}}

\* spot rates out of order, in order, steep within the cut-off of the conversion,
\* and of equal t
SpotRateLists ==
    {<<SpotRate(Num(2), Q(3, 50)), SpotRate(One, Q(1, 25))>>,
     <<SpotRate(One, Q(1, 25)), SpotRate(Num(2), Q(3, 50))>>,
     <<SpotRate(One, Q(1, 25))>>,
     <<SpotRate(Num(2), Q(3, 50)), SpotRate(<<1, 200000000>>, One),
       SpotRate(irDiscountCurveConversionTimeCutoff, Num(500000)), SpotRate(One, Q(1, 25))>>,
     <<SpotRate(irDiscountCurveConversionTimeCutoff, Num(500000)), SpotRate(Num(2), Q(3, 50)),
       SpotRate(One, Q(1, 25))>>,
     <<SpotRate(One, Q(1, 25)), SpotRate(One, Q(3, 50)), SpotRate(Num(3), Q(1, 10))>>,
     <<SpotRate(One, Q(3, 50)), SpotRate(Num(3), Q(1, 10)), SpotRate(One, Q(1, 25))>>}

\* the curve is converted to a discount curve and back only where the spot rate
\* within the cut-off is large enough for the product with 1e-8 to be kept
CurveArgs ==
    {[spotRates |-> a, convert |-> FALSE] :
        a \in {NotAnArray, ArrayOf(<<>>)} \cup {ArrayOf(l) : l \in SpotRateLists}}
    \cup {[spotRates |-> ArrayOf(l), convert |-> TRUE] :
            l \in {m \in SpotRateLists :
                    \E k \in 1..Len(m) : m[k].t = irDiscountCurveConversionTimeCutoff}}

CurveTimes ==
    {Num(-1), Zero, irDiscountCurveConversionTimeCutoff, Q(1, 2), One,
     Q(3, 2), Num(2), Num(3), NaN, StringValue}

DiscountCurves ==
    {irFlatDiscountCurve(Zero), irFlatDiscountCurve(Q(1, 20)), irFlatDiscountCurve(Q(-1, 10)),
     irSpotCurve2DiscountCurve(irLinearInterpolationSpotCurve(
         ArrayOf(<<SpotRate(Num(2), Q(3, 50)), SpotRate(One, Q(1, 25))>>)))}

\* fixed cashflows, floaters on contiguous periods with their redemption, and
\* floating legs without one
CashflowLists ==
    {<<>>,
     <<FixedCashflow(One, Num(7))>>,
     <<FixedCashflow(One, Num(7)), FixedCashflow(Num(2), Num(107))>>,
     <<FloatingCashflow(Zero, One, Num(100)), FloatingCashflow(One, Num(2), Num(100)),
       FixedCashflow(Num(2), Num(100))>>,
     <<FloatingCashflow(Zero, Q(1, 2), Num(50)), FloatingCashflow(Q(1, 2), One, Num(50)),
       FloatingCashflow(One, Q(3, 2), Num(50)), FixedCashflow(Q(3, 2), Num(50))>>,
     <<FloatingCashflow(Zero, One, Num(100)), FixedCashflow(One, Num(100))>>,
     <<FloatingCashflow(Zero, One, Num(100))>>,
     <<FloatingCashflow(Q(1, 2), One, Num(100)), FixedCashflow(Q(1, 2), Num(5))>>}

ForwardPriceArgs ==
    [cashflows : CashflowLists, discountCurve : DiscountCurves,
     t : {Zero, Q(1, 2), One, Q(3, 2), Num(2), Num(3)}]

InitRates ==
    /\ \/ op = "Bond" /\ args \in BondArgs
       \/ op = "Bond methods" /\ args \in MethodBondArgs
       \/ op = "irBlack76CapletFloorlet" /\ args \in CapletArgs
       \/ op = "irForwardPrice" /\ args \in ForwardPriceArgs
       \/ op = "irLinearInterpolationSpotCurve" /\ args \in CurveArgs
    /\ pc = "call"
    /\ loc = <<>>
    /\ out = None

\* new Bond(notional, coupon, start, end, frequency): the fields are the arguments
BondNew ==
    /\ op \in BondOps /\ pc = "call"
    /\ out' = BondChecks(args)
    /\ pc' = IF Throws(BondChecks(args)) THEN "done" ELSE "constructed"
    /\ UNCHANGED <<op, args, loc>>

\* the entry that the call before put in front of its working copy, if that call
\* was one of yieldToMaturity or duration and came to make the copy
LastUnshifted ==
    IF loc # <<>> /\ loc.method \in {"yieldToMaturity", "duration"} THEN loc.unshifted
    ELSE <<>>

\* a read of bond.cashflows
BondGetCashflows ==
    /\ op \in BondOps /\ pc = "constructed"
    /\ out' = CashflowsRead(args, LastUnshifted)
    /\ loc' = [method |-> "cashflows", unshifted |-> LastUnshifted]
    /\ UNCHANGED <<op, args, pc>>

\* a call of bond.forwardDirtyPrice(discountCurve, t)
BondForwardDirtyPrice ==
    /\ op \in BondOps /\ pc = "constructed"
    /\ \E discountCurve \in DiscountCurves, t \in {Zero, args.end} :
        /\ out' = IF Throws(BondCashflows(args)) THEN BondCashflows(args)
                  ELSE Return(irForwardPrice(BondCashflows(args).value, discountCurve, t))
        /\ loc' = [method |-> "forwardDirtyPrice", discountCurve |-> discountCurve, t |-> t]
    /\ UNCHANGED <<op, args, pc>>

\* a call of bond.dirtyPrice(discountCurve)
BondDirtyPrice ==
    /\ op = "Bond methods" /\ pc = "constructed"
    /\ \E discountCurve \in DiscountCurves :
        /\ out' = IF Throws(BondCashflows(args)) THEN BondCashflows(args)
                  ELSE Return(irForwardPrice(BondCashflows(args).value, discountCurve, Zero))
        /\ loc' = [method |-> "dirtyPrice", discountCurve |-> discountCurve]
    /\ UNCHANGED <<op, args, pc>>

\* the locals of irInternalRateOfReturn as the call a enters its loop
LoopEntry(a) ==
    [last |-> R0(a), current |-> R1(a), npv_last |-> npv(a.cashflows.items, R0(a)),
     i |-> 0, out |-> None]

\* a call of bond.yieldToMaturity(npv), or of bond.duration(npv), which begins
\* with it, up to the loop of irInternalRateOfReturn; unshifted is the entry put
\* in front of the working copy, once the copy has been made
BondYieldToMaturity ==
    /\ op = "Bond methods" /\ pc = "constructed"
    /\ \E npvArg \in BondNpvs, method \in {"yieldToMaturity", "duration"} :
        \E checks \in {YieldChecks(args, npvArg)} :
            IF Throws(checks)
            THEN /\ out' = checks
                 /\ loc' = [method |-> method, npv |-> npvArg, unshifted |-> <<>>]
                 /\ UNCHANGED pc
            ELSE /\ loc' = [method |-> method, npv |-> npvArg,
                            unshifted |-> Unshifted(DefaultTo(npvArg, args.notional)),
                            irr |-> LoopEntry(YieldArguments(args,
                                        DefaultTo(npvArg, args.notional)))]
                 /\ pc' = "secant"
                 /\ UNCHANGED out
    /\ UNCHANGED <<op, args>>

\* one pass of the loop within yieldToMaturity; when it returns or throws,
\* yieldToMaturity ends with its outcome and duration goes on to lines 690-694
BondSecantPass ==
    /\ op = "Bond methods" /\ pc = "secant"
    /\ \E st \in {IrrStep(YieldArguments(args, DefaultTo(loc.npv, args.notional)),
                           loc.irr)} :
        IF st.out = None
        THEN /\ loc' = [loc EXCEPT !.irr = st]
             /\ UNCHANGED <<pc, out>>
        ELSE /\ out' = IF loc.method = "duration"
                       THEN DurationFrom(args, DefaultTo(loc.npv, args.notional), st.out)
                       ELSE st.out
             /\ loc' = [method |-> loc.method, npv |-> loc.npv,
                        unshifted |-> loc.unshifted]
             /\ pc' = "constructed"
    /\ UNCHANGED <<op, args>>

CallIrForwardPrice ==
    /\ op = "irForwardPrice" /\ pc = "call"
    /\ out' = Return(irForwardPrice(args.cashflows, args.discountCurve, args.t))
    /\ pc' = "done"
    /\ UNCHANGED <<op, args, loc>>

CallIrBlack76CapletFloorlet ==
    /\ op = "irBlack76CapletFloorlet" /\ pc = "call"
    /\ out' = irBlack76CapletFloorlet(args.floatingRate, args.K, args.sigma, args.spotCurve)
    /\ pc' = "done"
    /\ UNCHANGED <<op, args, loc>>

\* irLinearInterpolationSpotCurve(spotRates), and the two conversions applied to
\* the curve it returns when convert is TRUE
CurveNew ==
    /\ op = "irLinearInterpolationSpotCurve" /\ pc = "call"
    /\ out' = assertNonEmptyArray(args.spotRates, "spotRates")
    /\ IF Throws(assertNonEmptyArray(args.spotRates, "spotRates"))
       THEN /\ pc' = "done"
            /\ UNCHANGED <<args, loc>>
       ELSE /\ pc' = "constructed"
            /\ args' = [args EXCEPT !.spotRates =
                            CallerArray(args.spotRates, SortedByT(args.spotRates.items))]
            /\ loc' = [spotCurve |-> irLinearInterpolationSpotCurve(args.spotRates),
                       curve |-> IF args.convert
                                 THEN irDiscountCurve2SpotCurve(irSpotCurve2DiscountCurve(
                                          irLinearInterpolationSpotCurve(args.spotRates)))
                                 ELSE irLinearInterpolationSpotCurve(args.spotRates),
                       t |-> Undefined, used |-> Undefined]
    /\ UNCHANGED op

\* a call curve(t) of the curve constructed; used is the t that the conversion
\* of lines 541-546 goes on with
CurveCall ==
    /\ op = "irLinearInterpolationSpotCurve" /\ pc = "constructed"
    /\ \E t \in CurveTimes :
        /\ out' = Then(assertNumber(t, "t"), Return(CurveAt(loc.curve, t)))
        /\ loc' = [loc EXCEPT !.t = t,
                              !.used = IF IsNumber(t) /\ args.convert
                                       THEN ClampedTime(t) ELSE t]
    /\ UNCHANGED <<op, args, pc>>

NextRates ==
    \/ BondNew \/ BondGetCashflows \/ BondForwardDirtyPrice
    \/ BondDirtyPrice \/ BondYieldToMaturity \/ BondSecantPass
    \/ CallIrBlack76CapletFloorlet
    \/ CallIrForwardPrice \/ CurveNew \/ CurveCall

SpecRates == InitRates /\ [][NextRates]_vars

\* a read of bond.cashflows has returned
CashflowsReturned ==
    op = "Bond" /\ pc = "constructed" /\ loc # <<>> /\ loc.method = "cashflows"
    /\ out.kind = "return"

\* C12: a read of cashflows that returns gives exactly [{t: end, value: notional}]
\* if coupon is 0; otherwise one coupon {t, value: notional*coupon*(t - previous
\* date)} per date of irRollFromEnd(start, end, frequency), the previous date of
\* the first being start, in ascending order, followed by the redemption
\* {t: end, value: notional}; where the schedule has a date (it has none only when
\* start, end or frequency is NaN) the last two entries share t = end.
C12_BondCashflows ==
    CashflowsReturned =>
        LET redemption == [t |-> args.end, value |-> args.notional,
                           notional |-> Undefined, T |-> Undefined]
            schedule == irRollFromEnd(args.start, args.end, args.frequency).value
            n == Len(schedule)
        IN  IF args.coupon = Zero THEN out.value = <<redemption>>
            ELSE /\ ~Throws(irRollFromEnd(args.start, args.end, args.frequency))
                 /\ Len(out.value) = n + 1
                 /\ \A k \in 1..n :
                      /\ out.value[k].t = schedule[k]
                      /\ out.value[k].value =
                            Mul(Mul(args.notional, args.coupon),
                                Sub(schedule[k], IF k = 1 THEN args.start
                                                 ELSE schedule[k-1]))
                      /\ out.value[k].notional = Undefined
                 /\ \A k \in 1..(n - 1) : Lt(out.value[k].t, out.value[k+1].t)
                 /\ out.value[n + 1] = redemption
                 /\ n >= 1 => out.value[n].t = args.end /\ out.value[n].t = out.value[n+1].t

\* new Bond(100, 0.04, 0.1, 2.6, 2).cashflows: coupons of 2 at 0.6, 1.1, 1.6,
\* 2.1, 2.6 and the redemption of 100 at 2.6
C12_Witness ==
    /\ CashflowsReturned
    /\ args = [notional |-> Num(100), coupon |-> Q(1, 25), start |-> Q(1, 10),
               end |-> Q(13, 5), frequency |-> Num(2)]
    /\ Len(out.value) = 6
    /\ \A k \in 1..5 : out.value[k].value = Num(2)
    /\ out.value[1].t = Q(3, 5)
    /\ out.value[5].t = Q(13, 5) /\ out.value[6].t = Q(13, 5)
    /\ out.value[6].value = Num(100)

\* C13: when irForwardPrice returns, the cashflows paid before t (a fixed one with
\* cf.t < t, a floating one with cf.T < t) add nothing to its value, a fixed
\* cashflow paid exactly at t counts with its full value, and an empty list gives
\* 0; bond.forwardDirtyPrice(curve, end) returns the final coupon plus the notional
\* (the notional alone for a bond without coupon dates), end being a number other
\* than NaN.
C13_CountsFromT ==
    /\ (op = "irForwardPrice" /\ pc = "done") =>
        LET paid(cf) == IF IsNumber(cf.notional) THEN Lt(cf.T, args.t) ELSE Lt(cf.t, args.t)
            unpaid(cf) == ~paid(cf)
            rest == SelectSeq(args.cashflows, unpaid)
        IN  /\ out.kind = "return"
            /\ out.value = irForwardPrice(rest, args.discountCurve, args.t)
            /\ rest = <<>> => out.value = Zero
            /\ (Len(rest) = 1 /\ ~IsNumber(rest[1].notional) /\ rest[1].t = args.t)
                    => out.value = rest[1].value
    /\ (/\ op = "Bond" /\ pc = "constructed" /\ loc # <<>>
        /\ loc.method = "forwardDirtyPrice" /\ loc.t = args.end
        /\ ~IsNaN(args.end)
        /\ out.kind = "return") =>
        LET cashflows == BondCashflows(args).value
            n == Len(cashflows)
        IN  out.value = IF n = 1 THEN args.notional
                        ELSE Add(cashflows[n-1].value, args.notional)

\* new Bond(100, 0.04, 0.1, 2.6, 2).forwardDirtyPrice(irFlatDiscountCurve(0.05), 2.6)
\* has returned 102, and its price at 0 is another one
C13_Witness ==
    /\ op = "Bond" /\ pc = "constructed" /\ loc # <<>>
    /\ loc.method = "forwardDirtyPrice" /\ loc.t = args.end
    /\ loc.discountCurve = irFlatDiscountCurve(Q(1, 20))
    /\ args = [notional |-> Num(100), coupon |-> Q(1, 25), start |-> Q(1, 10),
               end |-> Q(13, 5), frequency |-> Num(2)]
    /\ out = Return(Num(102))
    /\ irForwardPrice(BondCashflows(args).value, loc.discountCurve, Zero) # Num(102)

\* C14: a floater is par. When irForwardPrice(cashflows, curve, 0) returns for
\* floating cashflows on contiguous periods [0,t1],...,[t(n-1),tn] with one common
\* notional plus a fixed cashflow of that notional at tn, and curve(0) = 1, its
\* value is the notional; a list of one floating cashflow is worth
\* notional*(curve(cf.t) - curve(cf.T))/curve(0).
C14_FloaterIsPar ==
    (op = "irForwardPrice" /\ pc = "done" /\ args.t = Zero
     /\ CurveAt(args.discountCurve, Zero) = One) =>
        LET cfs == args.cashflows
            n == Len(cfs)
            floater ==
                /\ n >= 2
                /\ ~IsNumber(cfs[n].notional)
                /\ \A k \in 1..(n - 1) :
                     /\ cfs[k].notional = cfs[n].value
                     /\ cfs[k].t = IF k = 1 THEN Zero ELSE cfs[k-1].T
                /\ cfs[n-1].T = cfs[n].t
        IN  /\ floater => out.value = cfs[n].value
            /\ (n = 1 /\ IsNumber(cfs[1].notional)) =>
                   out.value = Div(Mul(cfs[1].notional,
                                       Sub(CurveAt(args.discountCurve, cfs[1].t),
                                           CurveAt(args.discountCurve, cfs[1].T))),
                                   CurveAt(args.discountCurve, Zero))

\* the floater of 50 on three half-year periods is worth 50 at 0 on the discount
\* curve of the interpolated spot rates, on which money has a time value
C14_Witness ==
    /\ op = "irForwardPrice" /\ pc = "done" /\ args.t = Zero
    /\ Len(args.cashflows) = 4
    /\ args.cashflows[1].notional = Num(50)
    /\ args.discountCurve.kind = "discount"
    /\ Lt(CurveAt(args.discountCurve, Q(3, 2)), CurveAt(args.discountCurve, Q(1, 2)))
    /\ out = Return(Num(50))

\* a call of the interpolated spot curve itself has returned
SpotCurveReturned ==
    /\ op = "irLinearInterpolationSpotCurve" /\ pc = "constructed"
    /\ ~args.convert /\ IsNumber(loc.t) /\ out.kind = "return"

\* C15 as claimed: a call curve(t) of the curve of irLinearInterpolationSpotCurve
\* returns the value of the reference function over the knots in ascending t: the
\* first rate below the first knot, the last rate at or above the last knot, the
\* knot's own rate at a knot time, and otherwise the linear interpolation between
\* the two bracketing knots, a value between their rates; and it returns the same
\* value for the spot rates given in any other order.
C15_ReferenceCurve ==
    SpotCurveReturned =>
        LET items == args.spotRates.items
            n == Len(items)
            t == loc.t
            orders == {f \in [1..n -> 1..n] : \A i, j \in 1..n : f[i] = f[j] => i = j}
            ascending(f) == \A i \in 1..(n - 1) : Le(items[f[i]].t, items[f[i+1]].t)
            knots == LET f == CHOOSE g \in orders : ascending(g)
                     IN  [i \in 1..n |-> items[f[i]]]
            line(a, b) == Add(a.rate, Mul(Div(Sub(b.rate, a.rate), Sub(b.t, a.t)),
                                          Sub(t, a.t)))
            between(v, x, y) == (Le(x, v) /\ Le(v, y)) \/ (Le(y, v) /\ Le(v, x))
        IN  /\ Lt(t, knots[1].t) => out.value = knots[1].rate
            /\ Ge(t, knots[n].t) => out.value = knots[n].rate
            /\ \A k \in 1..n : t = knots[k].t => out.value = knots[k].rate
            /\ \A k \in 1..(n - 1) :
                 (Lt(knots[k].t, t) /\ Lt(t, knots[k+1].t)) =>
                     /\ out.value = line(knots[k], knots[k+1])
                     /\ between(out.value, knots[k].rate, knots[k+1].rate)
            /\ \A f \in orders :
                 out.value = CurveAt(irLinearInterpolationSpotCurve(
                                         ArrayOf([i \in 1..n |-> items[f[i]]])), t)

\* C15 amended: that holds for spot rates of pairwise different t.
C15_ReferenceCurveDistinctKnots ==
    (SpotCurveReturned
     /\ \A i, j \in 1..Len(args.spotRates.items) :
            args.spotRates.items[i].t = args.spotRates.items[j].t => i = j)
        => C15_ReferenceCurve

\* the curve of [{t: 2, rate: 0.06}, {t: 1, rate: 0.04}], given out of order,
\* has returned 0.05 at 1.5
C15_Witness ==
    /\ SpotCurveReturned
    /\ args.spotRates.items = <<SpotRate(Num(2), Q(3, 50)), SpotRate(One, Q(1, 25))>>
    /\ loc.t = Q(3, 2)
    /\ out = Return(Q(1, 20))

\* C16: no step of the construction of the interpolated curve or of a call of the
\* curve changes the array the caller passed: it keeps its elements in their order.
C16_CallerArrayUnchanged ==
    [][op = "irLinearInterpolationSpotCurve" => args.spotRates' = args.spotRates]_vars

\* the curve of spot rates given out of order has been called: it holds them
\* sorted, and the caller's array is still out of order
C16_Witness ==
    /\ SpotCurveReturned
    /\ args.spotRates.items = <<SpotRate(Num(2), Q(3, 50)), SpotRate(One, Q(1, 25))>>
    /\ loc.spotCurve.spotRates = <<SpotRate(One, Q(1, 25)), SpotRate(Num(2), Q(3, 50))>>
    /\ out = Return(Q(3, 50))

\* a call of the spot curve converted to a discount curve and back has returned
ConvertedReturned ==
    /\ op = "irLinearInterpolationSpotCurve" /\ pc = "constructed"
    /\ args.convert /\ IsNumber(loc.t) /\ out.kind = "return"

\* C17 as claimed: for every t >= 0 a call of
\* irDiscountCurve2SpotCurve(irSpotCurve2DiscountCurve(s)) at t returns s(t).
C17_RoundTrip ==
    (ConvertedReturned /\ Ge(loc.t, Zero)) => out.value = CurveAt(loc.spotCurve, loc.t)

\* C17 amended: the call returns s(t) for t above the cut-off of 1e-8 and
\* s(1e-8) for t from 0 to the cut-off, wherever the discount factor
\* exp(-s(t)*t) in between has not underflowed to 0.
C17_RoundTripAboveCutoff ==
    (/\ ConvertedReturned /\ Ge(loc.t, Zero)
     /\ CurveAt(irSpotCurve2DiscountCurve(loc.spotCurve), loc.used) # Zero)
        => /\ Gt(loc.t, irDiscountCurveConversionTimeCutoff)
                => out.value = CurveAt(loc.spotCurve, loc.t)
           /\ Le(loc.t, irDiscountCurveConversionTimeCutoff)
                => out.value = CurveAt(loc.spotCurve, irDiscountCurveConversionTimeCutoff)

\* the converted curve has returned the interpolated rate 0.05 at 1.5, by way of
\* a discount factor below 1
C17_Witness ==
    /\ ConvertedReturned
    /\ loc.t = Q(3, 2)
    /\ Lt(CurveAt(irSpotCurve2DiscountCurve(loc.spotCurve), loc.t), One)
    /\ Gt(CurveAt(irSpotCurve2DiscountCurve(loc.spotCurve), loc.t), Zero)
    /\ out = Return(Q(1, 20))

\* C18: a call at a number t of the spot curve of irDiscountCurve2SpotCurve goes on
\* with exactly 1e-8 if 0 <= t <= 1e-8 and with t itself otherwise, returns
\* -ln(discountCurve(t))/t for that t, and so never divides by 0.
C18_CutoffNearZero ==
    ConvertedReturned =>
        LET inside == Ge(loc.t, Zero) /\ Le(loc.t, irDiscountCurveConversionTimeCutoff)
        IN  /\ inside => loc.used = irDiscountCurveConversionTimeCutoff
            /\ ~inside => loc.used = loc.t
            /\ loc.used # Zero
            /\ out.value = Div(Neg(Ln(CurveAt(loc.curve.discountCurve, loc.used))), loc.used)

\* the converted curve called at 0 went on with 1e-8 and returned the rate there
C18_Witness ==
    /\ ConvertedReturned
    /\ loc.t = Zero
    /\ loc.used = irDiscountCurveConversionTimeCutoff
    /\ out = Return(Num(500000))


\* C24: new Bond(notional, coupon, start, end, frequency) throws when notional,
\* coupon, start or end is not a number or frequency is not a number in
\* (0, 1/irMinimumPeriod]; on every other input it succeeds, with the five
\* arguments as the fields of the bond; and yieldToMaturity throws when it is
\* given an npv that is not a number.
C24_BondConstructor ==
    (op \in BondOps /\ pc # "call") =>
        /\ (\/ \E f \in {"notional", "coupon", "start", "end"} : ~IsNumber(args[f])
            \/ ~IsNumber(args.frequency)
            \/ ~(Gt(args.frequency, Zero) /\ Le(args.frequency, Div(One, irMinimumPeriod))))
           <=> (pc = "done" /\ Throws(out))
        /\ pc \in {"done", "constructed", "secant"}
        /\ (/\ pc = "constructed" /\ loc # <<>> /\ loc.method = "yieldToMaturity"
            /\ loc.npv # Undefined /\ ~IsNumber(loc.npv)) => Throws(out)


\* a call of irBlack76CapletFloorlet has returned
CapletReturned == op = "irBlack76CapletFloorlet" /\ pc = "done" /\ out.kind = "return"

C26_CapletReturnsPricingResult ==
    CapletReturned =>
        /\ {"call", "put", "N_d1", "N_d2", "d1", "d2", "sigma"} \subseteq DOMAIN out.value
        /\ {"price", "delta", "gamma"} \subseteq DOMAIN out.value.call
        /\ {"price", "delta", "gamma"} \subseteq DOMAIN out.value.put


\* C28: no operation on a constructed bond has a side effect on it. Every read of
\* cashflows and every call of forwardDirtyPrice, dirtyPrice, yieldToMaturity and
\* duration leaves the five fields as they were, and a read of cashflows gives
\* what it gives on the bond as constructed: the entry {t: 0, value: -npv} that
\* the call before put in front of its working copy is not in it.
C28_NoSideEffect ==
    [][(op \in BondOps /\ pc \in {"constructed", "secant"}) =>
            /\ args' = args
            /\ loc'.method = "cashflows" =>
                  /\ out' = BondCashflows(args)
                  /\ (loc'.unshifted # <<>> /\ out'.kind = "return") =>
                        \A k \in 1..Len(out'.value) : out'.value[k] # loc'.unshifted[1]]_vars

\* the cashflows of the bond with two coupons have been read right after
\* yieldToMaturity() worked on its copy of them with {t: 0, value: -100} in front
C28_Witness ==
    /\ op = "Bond methods" /\ pc = "constructed" /\ loc # <<>>
    /\ loc.method = "cashflows"
    /\ loc.unshifted = <<FixedCashflow(Zero, Num(-100))>>
    /\ args.end = Q(11, 10) /\ args.coupon = Q(1, 25)
    /\ out.kind = "return" /\ Len(out.value) = 3
    /\ out.value[1] = FixedCashflow(Q(3, 5), Num(2))


\* a read of the cashflows of a bond of either run has returned
BondCashflowsRead ==
    op \in BondOps /\ pc = "constructed" /\ loc # <<>> /\ loc.method = "cashflows"
    /\ out.kind = "return"

\* the sum of the values of the first n cashflows
RECURSIVE SumOfValues(_, _)
SumOfValues(cashflows, n) ==
    IF n = 0 THEN Zero ELSE Add(SumOfValues(cashflows, n - 1), cashflows[n].value)

ScheduleTooShort == Ge(Add(args.start, irMinimumPeriod), args.end)

\* the outcome is the domain error of irRollFromEnd
ScheduleError(o) ==
    o = Throw("start", "needs to be at least irMinimumPeriod before end")

\* C30 as claimed: the constructor does not raise the domain error of the schedule
\* (start + irMinimumPeriod >= end); on such a bond with coupon != 0 every read of
\* cashflows and every call of forwardDirtyPrice, dirtyPrice, yieldToMaturity and
\* duration raises it, and with coupon = 0 no operation raises it and cashflows is
\* [{t: end, value: notional}].
C30_ScheduleErrorOnUse ==
    (op \in BondOps /\ pc # "call" /\ ScheduleTooShort) =>
        /\ pc # "done"
        /\ (pc = "constructed" /\ loc # <<>> /\ ~StrictEq(args.coupon, Zero)) => ScheduleError(out)
        /\ (pc = "constructed" /\ loc # <<>> /\ StrictEq(args.coupon, Zero)) =>
              /\ ~ScheduleError(out)
              /\ loc.method = "cashflows" =>
                    out = Return(<<FixedCashflow(args.end, args.notional)>>)

\* C30 amended: the same, where yieldToMaturity and duration raise the error of
\* the schedule when their npv is a number or is left out; an npv that is not a
\* number is rejected before the cashflows are read.
C30_ScheduleErrorOnValidUse ==
    (op \in BondOps /\ pc # "call" /\ ScheduleTooShort) =>
        /\ pc # "done"
        /\ (pc = "constructed" /\ loc # <<>> /\ ~StrictEq(args.coupon, Zero)) =>
              IF loc.method \in {"yieldToMaturity", "duration"}
                 /\ loc.npv # Undefined /\ ~IsNumber(loc.npv)
              THEN out = Throw("undefined", "must be a number")
              ELSE ScheduleError(out)
        /\ (pc = "constructed" /\ loc # <<>> /\ StrictEq(args.coupon, Zero)) =>
              /\ ~ScheduleError(out)
              /\ loc.method = "cashflows" =>
                    out = Return(<<FixedCashflow(args.end, args.notional)>>)

\* new Bond(100, 0.04, 0, 0.0005, 1) was constructed and its duration() has
\* raised the error of the schedule
C30_Witness ==
    /\ op = "Bond methods" /\ pc = "constructed" /\ loc # <<>>
    /\ args = [notional |-> Num(100), coupon |-> Q(1, 25), start |-> Zero,
               end |-> Q(1, 2000), frequency |-> One]
    /\ loc.method = "duration" /\ loc.npv = Undefined
    /\ ScheduleError(out)

====
